---- MODULE Spec2Model ----
(***************************************************************************)
(* Conversation execution coordinator of OpenHands-CLI.                    *)
(*                                                                         *)
(* The TUI side: UserMessageController, ConversationRunner (the turn loop  *)
(* run in a worker thread), RunnerRegistry, ConfirmationPolicyService,     *)
(* ConfirmationFlowController, ConversationSwitchController,               *)
(* ConversationCrudController and the reactive state container.            *)
(* The ACP side: OpenHandsACPAgent.prompt / cancel.                        *)
(*                                                                         *)
(* The agent engine (openhands.sdk conversation) is an external            *)
(* collaborator: run() is a blocking step whose outcome is chosen          *)
(* nondeterministically, pause() is a signal.                              *)
(***************************************************************************)
EXTENDS Integers, Sequences, FiniteSets, TLC

\* ---------------------------------------------------------------- bounds
MaxSessions == 2
MaxMsgs == 2
MaxActions == 2
MaxSwitches == 1
MaxTurnMsgs == 1
MaxConstructions == 2
MaxProducers == 2
MaxUpdates == 2
MaxTrace == 4
MaxStops == 2
MaxScript == 2
MaxElapsed == 2

None == 0
Ids == 1..MaxSessions
Msgs == 1..MaxMsgs
SwitchSlots == 1..MaxSwitches
TurnMsgs == 1..MaxTurnMsgs
Instances == [id : 1..MaxSessions, n : 1..MaxConstructions]

\* ------------------------------------------------------------ vocabulary
Policies == {"AlwaysConfirm", "NeverConfirm", "ConfirmRisky"}
Decisions == {"ACCEPT", "REJECT", "DEFER", "ALWAYS_PROCEED", "CONFIRM_RISKY"}
RunOutcomes == {"finished", "waiting", "paused", "other"}
ErrorKinds == {"ConversationRunError", "Exception"}

VARIABLES
    \* reactive state container
    conversation_id,            \* active conversation id, None while switching
    switch_confirmation_target,
    running,
    confirmation_policy,
    attached_conversation,      \* conversation the container syncs its policy to
    pending_action_count,
    conversation_start_time,    \* TRUE when the run-start time is set
    \* RunnerRegistry and runners
    store,                      \* conversation ids known to the store
    runners,                    \* ids that have a ConversationRunner
    current_runner,
    runner_running,             \* ConversationRunner._running
    confirmation_callback,      \* whether runners are built with a callback
    \* engine conversations (external)
    exec_status,
    unmatched,
    pause_requested,
    conv_policy,
    reject_events,
    \* message handling and turn workers
    fate,
    workers,
    panel,
    notification,               \* the notification shown by the last step
    switch_workers,
    turn_log,                   \* whether the turns' statuses and decisions are logged
    \* ConversationView runner slot and ConversationSwitcher
    conversation_runner,        \* ConversationView._conversation_runner
    created,                    \* runners constructed by the view, per id
    view_running,               \* runner instances whose _running is set
    is_switching,
    input_disabled,             \* app.input_field.disabled
    modal_target,               \* target of the open SwitchConversationModal
    switch_confirmed,           \* the answer to the last switch confirmation
    \* ACP agent
    active_sessions,
    running_tasks,
    confirmation_mode,
    tasks,
    cancel_call,
    \* threads and the control thread's callback queue
    producers,                  \* per worker: kind, thread, updates emitted, blocked
    call_queue,                 \* callbacks posted to the control thread's loop
    applied,                    \* updates applied so far, in order
    \* the elapsed-time display, condensation, and the two turn loops compared
    elapsed_seconds,
    condensing,                 \* conversations whose condense() is executing
    loop_input,
    tui_calls,
    acp_calls

tuiVars == <<conversation_id, switch_confirmation_target, running,
             confirmation_policy, attached_conversation, pending_action_count,
             conversation_start_time, store, runners, current_runner,
             runner_running, confirmation_callback, fate, workers, panel,
             notification, switch_workers, conversation_runner, created,
             view_running, is_switching, input_disabled, modal_target,
             switch_confirmed, turn_log>>
engineVars == <<exec_status, unmatched, pause_requested, conv_policy, reject_events>>
acpVars == <<active_sessions, confirmation_mode, running_tasks, tasks,
             cancel_call>>
marshalVars == <<producers, call_queue, applied>>
loopVars == <<loop_input, tui_calls, acp_calls>>
vars == <<tuiVars, engineVars, acpVars, marshalVars, elapsed_seconds,
          condensing, loopVars>>

idVars == <<conversation_id, switch_confirmation_target>>
polVars == <<confirmation_policy, attached_conversation>>
runVars == <<running, conversation_start_time, runner_running>>
regVars == <<store, runners, current_runner>>
confVars == <<pending_action_count, panel>>
viewVars == <<conversation_runner, created, view_running, is_switching,
              input_disabled, modal_target, switch_confirmed>>

NoWorker == [sid |-> None, pc |-> "none", seen |-> "idle", decision |-> "NONE",
             pending |-> 0, rejected |-> FALSE, escalated |-> FALSE,
             ran |-> FALSE, trace |-> <<>>, batches |-> <<>>, asked |-> <<>>,
             decisions |-> <<>>]
NoPanel == [open |-> FALSE, worker |-> None, count |-> 0]
NoSwitch == [pc |-> "none", target |-> None, prev |-> None, pause |-> FALSE,
             pause_error |-> FALSE]
NoRunner == [id |-> None, n |-> 0]
NoTask == [sid |-> None, pc |-> "none", thread |-> "none", prompt |-> "none",
           decision |-> "NONE", rejected |-> FALSE, escalated |-> FALSE]
NoCancel == [sid |-> None, pc |-> "idle", task |-> None, trace |-> <<>>]

\* ------------------------------------------------------------------ Init
InitEngine ==
    /\ exec_status = [i \in Ids |-> "idle"]
    /\ unmatched = [i \in Ids |-> 0]
    /\ pause_requested = [i \in Ids |-> FALSE]
    /\ conv_policy = [i \in Ids |-> "NeverConfirm"]
    /\ reject_events = [i \in Ids |-> {}]

InitTui ==
    /\ conversation_id = 1
    /\ switch_confirmation_target = None
    /\ running = FALSE
    /\ confirmation_policy \in Policies
    /\ attached_conversation = None
    /\ pending_action_count = 0
    /\ conversation_start_time = FALSE
    /\ store = {1}
    /\ runners = {}
    /\ current_runner = None
    /\ runner_running = [i \in Ids |-> FALSE]
    /\ confirmation_callback \in BOOLEAN
    /\ fate = [m \in Msgs |-> "new"]
    /\ workers = [m \in Msgs |-> NoWorker]
    /\ panel = NoPanel
    /\ notification = "none"
    /\ switch_workers = [k \in SwitchSlots |-> NoSwitch]
    /\ turn_log = FALSE
    /\ conversation_runner = NoRunner
    /\ created = [i \in Ids |-> 0]
    /\ view_running = {}
    /\ is_switching = FALSE
    /\ input_disabled = FALSE
    /\ modal_target = None
    /\ switch_confirmed = "none"

InitAcp ==
    /\ active_sessions = {}
    /\ confirmation_mode = [i \in Ids |-> FALSE]
    /\ running_tasks = [i \in Ids |-> None]
    /\ tasks = [m \in Msgs |-> NoTask]
    /\ cancel_call = NoCancel

NoProducer == [kind |-> "none", thread |-> "none", emitted |-> 0,
               blocked |-> FALSE]

InitMarshal ==
    /\ producers = [p \in 1..MaxProducers |-> NoProducer]
    /\ call_queue = <<>>
    /\ applied = <<>>

\* No input given to the compared turn loops yet.
NoInput == [status |-> "idle", pending |-> 0, script |-> <<>>,
            answers |-> <<>>, callback |-> TRUE, attached |-> TRUE]

\* ConversationView: elapsed_seconds = var(0); no condensation is under way;
\* neither turn loop has been run on an input.
InitAux ==
    /\ elapsed_seconds = 0
    /\ condensing = {}
    /\ loop_input = NoInput
    /\ tui_calls = <<>>
    /\ acp_calls = <<>>

Init == InitTui /\ InitEngine /\ InitAcp /\ InitMarshal /\ InitAux

\* ------------------------------------------------ reactive state container
\* ConversationContainer.start_switching: a switch in progress is marked by
\* an unset conversation id ("no conversation_id means switching in
\* progress"), which finish_switching(target) sets to the target.
IdWhileSwitching == None

\* ConversationView.is_confirmation_active
is_confirmation_active == confirmation_policy # "NeverConfirm"

\* ConversationView.set_running + watch_running: the run-start time is set on
\* a False -> True change and cleared on a True -> False change.
StartTimeAfterSetRunning(v) ==
    IF v /\ ~running THEN TRUE
    ELSE IF ~v /\ running THEN FALSE
    ELSE conversation_start_time

\* watch_running: "self.elapsed_seconds = 0" on a False -> True change.
ElapsedAfterSetRunning(v) ==
    IF v /\ ~running THEN 0 ELSE elapsed_seconds

\* reset_conversation_state: "self.elapsed_seconds = 0"
ElapsedAfterReset == 0

\* ConversationView._sync_policy_to_conversation: push policy p into the
\* attached conversation a (if any) of the engine policies cp.
SyncPolicyToConversation(cp, a, p) ==
    IF a = None THEN cp ELSE [cp EXCEPT ![a] = p]

\* ConversationView.set_confirmation_policy + watch_confirmation_policy: the
\* watcher runs only when the reactive value changes.
PolicyAfterStateSet(cp, a, p) ==
    IF p # confirmation_policy THEN SyncPolicyToConversation(cp, a, p) ELSE cp

\* A reset that puts the policy back to the default of the reactive field.
PolicyAfterResetToDefault(p) == "AlwaysConfirm"

\* ConversationView.reset_conversation_state: "Preserves: confirmation_policy
\* (persists across conversations)"; p is the policy before the reset.
PolicyAfterReset(p) == p

\* ------------------------------------------------------- RunnerRegistry
\* ConversationContainer.attach_conversation_state(runner.conversation.state):
\* "attach conversation to state for metrics reading"; the engine policies cp
\* are left as they are.
AttachConversationState(cp, id) == cp

\* ConversationRunner.__init__ (on first access): the conversation is built
\* with the container's policy and attached to the container.
\* RunnerRegistry.get_or_create on an existing runner only re-attaches the
\* conversation state for metrics reading.
ConvPolicyAfterGetOrCreate(id) ==
    IF id \in runners THEN AttachConversationState(conv_policy, id)
    ELSE [conv_policy EXCEPT ![id] = confirmation_policy]

AttachedAfterGetOrCreate(id) ==
    IF id \in runners THEN attached_conversation ELSE id

\* ConfirmationPolicyService.set_policy
ConvPolicyAfterSetPolicy(cur, p) ==
    LET pushed == IF cur # None THEN [conv_policy EXCEPT ![cur] = p]
                  ELSE conv_policy
    IN PolicyAfterStateSet(pushed, attached_conversation, p)

\* --------------------------------------------------------------- engine
\* conversation.pause(): a signal; a conversation that is not inside a run
\* step settles to paused at once, a running step sees the signal later.
StatusAfterPause(st) ==
    IF st \in {"idle", "waiting"} THEN "paused" ELSE st

\* --------------------------------------------------------- user messages
\* UserMessageController.handle_user_message
HandleUserMessage(m) ==
    /\ fate[m] = "new"
    /\ \A k \in Msgs : k < m => fate[k] # "new"
    /\ IF conversation_id = None
       THEN /\ fate' = [fate EXCEPT ![m] = "dropped"]
            /\ notification' = "none"
            /\ UNCHANGED <<runners, conv_policy, attached_conversation,
                           current_runner, workers>>
       ELSE LET id == conversation_id IN
            /\ runners' = runners \cup {id}
            /\ conv_policy' = ConvPolicyAfterGetOrCreate(id)
            /\ attached_conversation' = AttachedAfterGetOrCreate(id)
            /\ current_runner' = id
            /\ IF runner_running[id]
               THEN \* ConversationRunner.queue_message
                    \E ok \in BOOLEAN :
                       /\ fate' = [fate EXCEPT ![m] = IF ok THEN "sent" ELSE "error"]
                       /\ notification' = IF ok THEN "none"
                                          ELSE "queue_message failed"
                       /\ UNCHANGED workers
               ELSE /\ fate' = [fate EXCEPT ![m] = "worker"]
                    /\ workers' = [workers EXCEPT ![m] =
                                     [NoWorker EXCEPT !.sid = id, !.pc = "spawned"]]
                    /\ notification' = "none"
    /\ UNCHANGED <<idVars, confirmation_policy, runVars, store,
                   confirmation_callback, confVars, switch_workers>>
    /\ UNCHANGED <<exec_status, unmatched, pause_requested, reject_events>>
    /\ UNCHANGED acpVars
    /\ UNCHANGED viewVars
    /\ UNCHANGED marshalVars
    /\ UNCHANGED <<elapsed_seconds, condensing, loopVars>>
    /\ UNCHANGED turn_log

\* ------------------------------------------------------- the turn worker
\* The log of a turn (the statuses the engine conversation went through, the
\* decisions applied), kept up to MaxTrace entries while turns are logged.
Observe(tr, st) == IF turn_log /\ Len(tr) < MaxTrace THEN Append(tr, st) ELSE tr

\* The log of the confirmation stops of a turn (the batch the engine stopped
\* with, the batch asked about, the decision), kept up to MaxStops entries.
ObserveStop(tr, x) == IF turn_log /\ Len(tr) < MaxStops THEN Append(tr, x) ELSE tr

\* _handle_confirmation_request: "if not pending_actions: return ACCEPT"
NoPendingActions(n) == n = 0

\* _handle_confirmation_request: the decision taken when no confirmation
\* callback is set.
DecisionWithoutCallback == "ACCEPT"

\* A handler that asks about the pending actions one at a time.
EscalatedBatchOne(pending) == 1

\* _handle_confirmation_request: "decision = self._confirmation_callback(
\* pending_actions)", one call with all the unmatched actions.
EscalatedBatch(pending) == pending

\* _handle_confirmation_request up to the call of the confirmation callback:
\* the worker record wr after the request for the pending actions.
ConfirmationRequest(wr, pending) ==
    IF NoPendingActions(pending)
    THEN [wr EXCEPT !.pc = "apply", !.decision = "ACCEPT",
                    !.batches = ObserveStop(@, pending)]
    ELSE IF confirmation_callback
    THEN [wr EXCEPT !.pc = "await_panel", !.pending = EscalatedBatch(pending),
                    !.escalated = TRUE,
                    !.batches = ObserveStop(@, pending),
                    !.asked = ObserveStop(@, EscalatedBatch(pending))]
    ELSE [wr EXCEPT !.pc = "apply", !.pending = pending,
                    !.decision = DecisionWithoutCallback,
                    !.batches = ObserveStop(@, pending)]

\* A handler that reports nothing.
ErrorNotificationNone(kind) == "none"

\* _run_conversation_sync, the except clauses: the notification shown for an
\* exception of the given kind.
ErrorNotification(kind) ==
    IF kind = "ConversationRunError" THEN "Conversation Error"
    ELSE "Unexpected Error"

\* A loop that starts with the engine step whatever the status.
ResumesFromConfirmationNever(st) == FALSE

\* _run_with_confirmation: "If agent was paused, resume with confirmation
\* request", the test of the status before the loop.
ResumesFromConfirmation(st) == st = "waiting"

\* ConversationRunner._run_conversation_sync up to the first engine step:
\* _update_run_status(True), conversation.send_message(message), the choice of
\* the run mode and, in confirmation mode, the resume check of
\* _run_with_confirmation.
WorkerStart(w) ==
    /\ workers[w].pc = "spawned"
    /\ runner_running' = [runner_running EXCEPT ![workers[w].sid] = TRUE]
    /\ running' = TRUE
    /\ conversation_start_time' = StartTimeAfterSetRunning(TRUE)
    /\ elapsed_seconds' = ElapsedAfterSetRunning(TRUE)
    /\ \E ok \in BOOLEAN :
          IF ok
          THEN /\ fate' = [fate EXCEPT ![w] = "sent"]
               /\ workers' = [workers EXCEPT ![w] =
                    IF ~is_confirmation_active
                    THEN [@ EXCEPT !.pc = "plain_run"]
                    ELSE IF ResumesFromConfirmation(exec_status[@.sid])
                    THEN ConfirmationRequest(
                             [@ EXCEPT !.seen = "waiting",
                                       !.trace = Observe(@, "waiting")],
                             unmatched[@.sid])
                    ELSE [@ EXCEPT !.pc = "loop_run"]]
               /\ notification' = "none"
          ELSE /\ fate' = [fate EXCEPT ![w] = "error"]
               /\ workers' = [workers EXCEPT ![w].pc = "finally"]
               /\ \E kind \in ErrorKinds : notification' = ErrorNotification(kind)
    /\ UNCHANGED <<idVars, polVars, regVars, confirmation_callback, confVars,
                   switch_workers>>
    /\ UNCHANGED engineVars
    /\ UNCHANGED acpVars
    /\ UNCHANGED viewVars
    /\ UNCHANGED marshalVars
    /\ UNCHANGED <<condensing, loopVars>>
    /\ UNCHANGED turn_log

\* conversation.run() is entered: the engine executes what was confirmed
WorkerRun(w) ==
    /\ workers[w].pc \in {"loop_run", "plain_run"}
    /\ LET id == workers[w].sid IN
       /\ exec_status' = [exec_status EXCEPT ![id] = "running"]
       /\ unmatched' = [unmatched EXCEPT ![id] = 0]
       /\ pause_requested' = [pause_requested EXCEPT ![id] = FALSE]
    /\ workers' = [workers EXCEPT
                     ![w].pc = IF workers[w].pc = "loop_run" THEN "in_run"
                               ELSE "in_plain_run",
                     ![w].seen = "running",
                     ![w].decision = "NONE",
                     ![w].rejected = FALSE,
                     ![w].escalated = FALSE,
                     ![w].ran = TRUE,
                     ![w].trace = Observe(@, "running")]
    /\ notification' = "none"
    /\ UNCHANGED <<idVars, polVars, runVars, regVars, confirmation_callback,
                   confVars, fate, switch_workers>>
    /\ UNCHANGED <<conv_policy, reject_events>>
    /\ UNCHANGED acpVars
    /\ UNCHANGED viewVars
    /\ UNCHANGED marshalVars
    /\ UNCHANGED <<elapsed_seconds, condensing, loopVars>>
    /\ UNCHANGED turn_log

\* A loop that handles a confirmation request on every status but finished.
LoopAsksConfirmationUnlessFinished(st) == st # "finished"

\* _run_with_confirmation, the status test after conversation.run(): whether
\* the loop handles a confirmation request on the status it reads (it ends
\* the turn on every other status).
LoopAsksConfirmation(st) == st = "waiting"

\* conversation.run() returns: the engine stops in one of its statuses.  The
\* engine waits for confirmation only under a confirming policy, and reports
\* paused only after a pause signal.  In confirmation mode the loop then
\* reads the status and dispatches on it; the plain run ends the turn.
EngineReturn(w) ==
    /\ workers[w].pc \in {"in_run", "in_plain_run"}
    /\ LET id == workers[w].sid IN
       \E outcome \in RunOutcomes, n \in 0..MaxActions :
          /\ outcome = "waiting" => conv_policy[id] # "NeverConfirm"
          /\ outcome = "paused" => pause_requested[id]
          /\ outcome # "waiting" => n = 0
          /\ exec_status' = [exec_status EXCEPT ![id] = outcome]
          /\ unmatched' = [unmatched EXCEPT ![id] = n]
          /\ workers' = [workers EXCEPT ![w] =
               IF @.pc = "in_plain_run"
               THEN [@ EXCEPT !.pc = "finally",
                              !.trace = Observe(@, outcome)]
               ELSE IF LoopAsksConfirmation(outcome)
               THEN ConfirmationRequest(
                        [@ EXCEPT !.seen = outcome,
                                  !.trace = Observe(@, outcome)], n)
               ELSE [@ EXCEPT !.pc = "finally", !.seen = outcome,
                              !.trace = Observe(@, outcome)]]
    /\ notification' = "none"
    /\ UNCHANGED <<idVars, polVars, runVars, regVars, confirmation_callback,
                   confVars, fate, switch_workers>>
    /\ UNCHANGED <<pause_requested, conv_policy, reject_events>>
    /\ UNCHANGED acpVars
    /\ UNCHANGED viewVars
    /\ UNCHANGED marshalVars
    /\ UNCHANGED <<elapsed_seconds, condensing, loopVars>>
    /\ UNCHANGED turn_log

\* conversation.run() raises (ConversationRunError or any other exception):
\* _run_conversation_sync reports it and falls through to the finally block.
EngineRaise(w) ==
    /\ workers[w].pc \in {"in_run", "in_plain_run"}
    /\ exec_status' = [exec_status EXCEPT ![workers[w].sid] = "other"]
    /\ \E kind \in ErrorKinds : notification' = ErrorNotification(kind)
    /\ workers' = [workers EXCEPT ![w].pc = "finally",
                                  ![w].trace = Observe(@, "other")]
    /\ UNCHANGED <<idVars, polVars, runVars, regVars, confirmation_callback,
                   confVars, fate, switch_workers>>
    /\ UNCHANGED <<unmatched, pause_requested, conv_policy, reject_events>>
    /\ UNCHANGED acpVars
    /\ UNCHANGED viewVars
    /\ UNCHANGED marshalVars
    /\ UNCHANGED <<elapsed_seconds, condensing, loopVars>>
    /\ UNCHANGED turn_log

\* ------------------------------------------------- confirmation panel
\* OpenHandsApp._handle_confirmation_request, first half: the inline panel is
\* mounted on the UI thread (ConfirmationFlowController.show_panel sets the
\* count); a failure to show it is DEFER.
ShowConfirmationPanel(w) ==
    /\ workers[w].pc = "await_panel"
    /\ \E ok \in BOOLEAN :
          IF ok
          THEN /\ panel' = [open |-> TRUE, worker |-> w,
                            count |-> workers[w].pending]
               /\ pending_action_count' = workers[w].pending
               /\ workers' = [workers EXCEPT ![w].pc = "await_decision"]
          ELSE /\ workers' = [workers EXCEPT ![w].pc = "apply",
                                             ![w].decision = "DEFER"]
               /\ UNCHANGED <<panel, pending_action_count>>
    /\ notification' = "none"
    /\ UNCHANGED <<idVars, polVars, runVars, regVars, confirmation_callback,
                   fate, switch_workers>>
    /\ UNCHANGED engineVars
    /\ UNCHANGED acpVars
    /\ UNCHANGED viewVars
    /\ UNCHANGED marshalVars
    /\ UNCHANGED <<elapsed_seconds, condensing, loopVars>>
    /\ UNCHANGED turn_log

\* ConfirmationFlowController.handle_decision: the policy the decision sets
PolicyOfDecision(d, old) ==
    IF d = "ALWAYS_PROCEED" THEN "NeverConfirm"
    ELSE IF d = "CONFIRM_RISKY" THEN "ConfirmRisky"
    ELSE old

\* The user selects an option of the inline panel: on_confirmation_decision
\* removes the panel and resolves the future unless it is done already;
\* ConfirmationFlowController.handle_decision clears the count and applies a
\* policy change through the policy service when there is a current runner.
PanelDecision(d) ==
    /\ panel.open
    /\ panel' = NoPanel
    /\ pending_action_count' = 0
    /\ LET p == IF current_runner = None THEN confirmation_policy
                ELSE PolicyOfDecision(d, confirmation_policy) IN
       /\ confirmation_policy' = p
       /\ conv_policy' = IF p = confirmation_policy THEN conv_policy
                         ELSE ConvPolicyAfterSetPolicy(current_runner, p)
    /\ workers' = IF workers[panel.worker].pc = "await_decision"
                  THEN [workers EXCEPT ![panel.worker].pc = "apply",
                                       ![panel.worker].decision = d]
                  ELSE workers
    /\ notification' = "none"
    /\ UNCHANGED <<idVars, attached_conversation, runVars, regVars,
                   confirmation_callback, fate, switch_workers>>
    /\ UNCHANGED <<exec_status, unmatched, pause_requested, reject_events>>
    /\ UNCHANGED acpVars
    /\ UNCHANGED viewVars
    /\ UNCHANGED marshalVars
    /\ UNCHANGED <<elapsed_seconds, condensing, loopVars>>
    /\ UNCHANGED turn_log

\* decision_future.result(timeout=300) times out or raises: DEFER
DecisionTimeout(w) ==
    /\ workers[w].pc = "await_decision"
    /\ workers' = [workers EXCEPT ![w].pc = "apply", ![w].decision = "DEFER"]
    /\ notification' = "none"
    /\ UNCHANGED <<idVars, polVars, runVars, regVars, confirmation_callback,
                   confVars, fate, switch_workers>>
    /\ UNCHANGED engineVars
    /\ UNCHANGED acpVars
    /\ UNCHANGED viewVars
    /\ UNCHANGED marshalVars
    /\ UNCHANGED <<elapsed_seconds, condensing, loopVars>>
    /\ UNCHANGED turn_log

\* A loop that returns on REJECT as it does on DEFER.
TurnEndsAfterDeferOrReject(d) == d \in {"DEFER", "REJECT"}

\* reject_pending_actions("User rejected the actions")
RejectReason == "User rejected the actions"

\* A loop that never returns on a decision.
TurnEndsAfterNever(d) == FALSE

\* _run_with_confirmation: "if user_confirmation == DEFER: return"
TurnEndsAfter(d) == d = "DEFER"

\* A handler that pauses the engine on no decision.
PausesEngineNever(d) == FALSE

\* _handle_confirmation_request: "elif decision == DEFER: conversation.pause()"
PausesEngine(d) == d = "DEFER"

\* _handle_confirmation_request, handling of the decision, and the loop's
\* test of the returned decision.
WorkerApply(w) ==
    /\ workers[w].pc = "apply"
    /\ LET id == workers[w].sid
           d == workers[w].decision
           p == PolicyOfDecision(d, confirmation_policy)
       IN
       /\ reject_events' = IF d = "REJECT"
                           THEN [reject_events EXCEPT
                                   ![id] = @ \cup {RejectReason}]
                           ELSE reject_events
       /\ unmatched' = IF d = "REJECT" THEN [unmatched EXCEPT ![id] = 0]
                       ELSE unmatched
       /\ exec_status' = IF PausesEngine(d)
                         THEN [exec_status EXCEPT ![id] = StatusAfterPause(@)]
                         ELSE exec_status
       /\ pause_requested' = IF PausesEngine(d)
                             THEN [pause_requested EXCEPT ![id] = TRUE]
                             ELSE pause_requested
       /\ confirmation_policy' = p
       /\ conv_policy' = PolicyAfterStateSet(conv_policy, attached_conversation, p)
       /\ workers' = [workers EXCEPT
                        ![w].pc = IF TurnEndsAfter(d) THEN "finally" ELSE "loop_run",
                        ![w].pending = 0,
                        ![w].rejected = (d = "REJECT"),
                        ![w].seen = IF d = "DEFER" THEN "paused" ELSE @,
                        ![w].trace = IF d = "DEFER" THEN Observe(@, "paused")
                                     ELSE @,
                        ![w].decisions = ObserveStop(@, d)]
    /\ notification' = "none"
    /\ UNCHANGED <<idVars, attached_conversation, runVars, regVars,
                   confirmation_callback, confVars, fate, switch_workers>>
    /\ UNCHANGED acpVars
    /\ UNCHANGED viewVars
    /\ UNCHANGED marshalVars
    /\ UNCHANGED <<elapsed_seconds, condensing, loopVars>>
    /\ UNCHANGED turn_log

\* _run_conversation_sync, the finally block: _update_run_status(False)
WorkerFinally(w) ==
    /\ workers[w].pc = "finally"
    /\ runner_running' = [runner_running EXCEPT ![workers[w].sid] = FALSE]
    /\ running' = FALSE
    /\ conversation_start_time' = StartTimeAfterSetRunning(FALSE)
    /\ elapsed_seconds' = ElapsedAfterSetRunning(FALSE)
    /\ workers' = [workers EXCEPT ![w] = [NoWorker EXCEPT
                                              !.sid = workers[w].sid,
                                              !.pc = "done"]]
    /\ notification' = "none"
    /\ UNCHANGED <<idVars, polVars, regVars, confirmation_callback, confVars,
                   fate, switch_workers>>
    /\ UNCHANGED engineVars
    /\ UNCHANGED acpVars
    /\ UNCHANGED viewVars
    /\ UNCHANGED marshalVars
    /\ UNCHANGED <<condensing, loopVars>>
    /\ UNCHANGED turn_log

\* ------------------------------------------------- pause and set policy
\* ConversationManager._on_pause_conversation / ConversationRunner.pause
PauseConversation ==
    /\ IF current_runner # None /\ runner_running[current_runner]
       THEN /\ notification' = "Pausing conversation"
            /\ exec_status' = [exec_status EXCEPT
                                 ![current_runner] = StatusAfterPause(@)]
            /\ pause_requested' = [pause_requested EXCEPT ![current_runner] = TRUE]
       ELSE /\ notification' = "No running conversation to pause"
            /\ UNCHANGED <<exec_status, pause_requested>>
    /\ UNCHANGED <<idVars, polVars, runVars, regVars, confirmation_callback,
                   confVars, fate, workers, switch_workers>>
    /\ UNCHANGED <<unmatched, conv_policy, reject_events>>
    /\ UNCHANGED acpVars
    /\ UNCHANGED viewVars
    /\ UNCHANGED marshalVars
    /\ UNCHANGED <<elapsed_seconds, condensing, loopVars>>
    /\ UNCHANGED turn_log

\* ConfirmationPolicyService.set_policy
SetConfirmationPolicy(p) ==
    /\ p # confirmation_policy
    /\ conv_policy' = ConvPolicyAfterSetPolicy(current_runner, p)
    /\ confirmation_policy' = p
    /\ notification' = "none"
    /\ UNCHANGED <<idVars, attached_conversation, runVars, regVars,
                   confirmation_callback, confVars, fate, workers,
                   switch_workers>>
    /\ UNCHANGED <<exec_status, unmatched, pause_requested, reject_events>>
    /\ UNCHANGED acpVars
    /\ UNCHANGED viewVars
    /\ UNCHANGED marshalVars
    /\ UNCHANGED <<elapsed_seconds, condensing, loopVars>>
    /\ UNCHANGED turn_log

\* ---------------------------------------------------- new conversation
\* RunnerRegistry.clear_current: only the current pointer is reset, the
\* dictionary of runners is left as it is.
RunnersAfterClearCurrentDrop(rs) == {}

RunnersAfterClearCurrent(rs) == rs

\* A clear_current that leaves the pointer as it is.
CurrentAfterClearCurrentKept(cur) == cur

\* RunnerRegistry.clear_current: "self._current_runner = None"
CurrentAfterClearCurrent(cur) == None

\* ConversationCrudController.create_conversation; the store hands out an
\* id it has not used yet.
CreateConversation ==
    /\ IF running
       THEN /\ notification' = "New Conversation Error"
            /\ UNCHANGED <<conversation_id, store, current_runner, running,
                           conversation_start_time, attached_conversation,
                           confirmation_policy, runners,
                           elapsed_seconds>>
       ELSE /\ \E new_id \in Ids \ store :
                  /\ \A j \in Ids \ store : new_id <= j
                  /\ store' = store \cup {new_id}
                  /\ conversation_id' = new_id
            \* clear_current
            /\ current_runner' = CurrentAfterClearCurrent(current_runner)
            /\ runners' = RunnersAfterClearCurrent(runners)
            \* reset_conversation_state
            /\ running' = FALSE
            /\ conversation_start_time' = FALSE
            /\ elapsed_seconds' = ElapsedAfterReset
            /\ attached_conversation' = None
            /\ confirmation_policy' = PolicyAfterReset(confirmation_policy)
            /\ notification' = "New Conversation"
    /\ UNCHANGED <<switch_confirmation_target,
                   runner_running, confirmation_callback, confVars, fate,
                   workers, switch_workers>>
    /\ UNCHANGED engineVars
    /\ UNCHANGED acpVars
    /\ UNCHANGED viewVars
    /\ UNCHANGED marshalVars
    /\ UNCHANGED <<condensing, loopVars>>
    /\ UNCHANGED turn_log

\* ------------------------------------------------------------ switching
\* ConversationSwitchController._perform_switch: start_switching and the
\* launch of the switch worker thread.
PerformSwitch(k, target_id, pause_current) ==
    /\ switch_workers[k].pc \in {"none", "done"}
    /\ switch_workers' = [switch_workers EXCEPT
                            ![k] = [pc |-> "start", target |-> target_id,
                                    prev |-> conversation_id,
                                    pause |-> pause_current,
                                    pause_error |-> FALSE]]
    /\ conversation_id' = IdWhileSwitching

\* ConversationSwitchController.request_switch
RequestSwitch(target_id) ==
    /\ target_id \in store
    /\ IF conversation_id = target_id
       THEN /\ notification' = "Already Active"
            /\ UNCHANGED <<conversation_id, switch_confirmation_target,
                           switch_workers>>
       ELSE IF running
       THEN /\ switch_confirmation_target' = target_id
            /\ notification' = "none"
            /\ UNCHANGED <<conversation_id, switch_workers>>
       ELSE /\ \E k \in SwitchSlots : PerformSwitch(k, target_id, FALSE)
            /\ notification' = "none"
            /\ UNCHANGED <<switch_confirmation_target>>
    /\ UNCHANGED <<polVars, runVars, regVars, confirmation_callback, confVars,
                   fate, workers>>
    /\ UNCHANGED engineVars
    /\ UNCHANGED acpVars
    /\ UNCHANGED viewVars
    /\ UNCHANGED marshalVars
    /\ UNCHANGED <<elapsed_seconds, condensing, loopVars>>
    /\ UNCHANGED turn_log

\* A handler that goes on with the switch whatever the answer.
SwitchProceedsAlways(confirmed) == TRUE

\* handle_switch_confirmed: "if confirmed:"
SwitchProceeds(confirmed) == confirmed

\* ConversationSwitchController.handle_switch_confirmed
HandleSwitchConfirmed(confirmed) ==
    /\ switch_confirmation_target # None
    /\ IF SwitchProceeds(confirmed)
       THEN /\ \E k \in SwitchSlots :
                  PerformSwitch(k, switch_confirmation_target, TRUE)
            /\ UNCHANGED switch_confirmation_target
       ELSE /\ switch_confirmation_target' = None
            /\ UNCHANGED <<conversation_id, switch_workers>>
    /\ switch_confirmed' = IF confirmed THEN "confirmed" ELSE "declined"
    /\ notification' = "none"
    /\ UNCHANGED <<polVars, runVars, regVars, confirmation_callback, confVars,
                   fate, workers>>
    /\ UNCHANGED engineVars
    /\ UNCHANGED acpVars
    /\ UNCHANGED <<conversation_runner, created, view_running, is_switching,
                   input_disabled, modal_target>>
    /\ UNCHANGED marshalVars
    /\ UNCHANGED <<elapsed_seconds, condensing, loopVars>>
    /\ UNCHANGED turn_log

\* _perform_switch.worker, the pause of the current runner (thread)
SwitchWorkerPause(k) ==
    /\ switch_workers[k].pc = "start"
    /\ IF /\ switch_workers[k].pause
          /\ current_runner # None
          /\ runner_running[current_runner]
       THEN \E ok \in BOOLEAN :
               IF ok
               THEN /\ exec_status' = [exec_status EXCEPT
                                         ![current_runner] = StatusAfterPause(@)]
                    /\ pause_requested' = [pause_requested EXCEPT
                                             ![current_runner] = TRUE]
                    /\ switch_workers' = [switch_workers EXCEPT ![k].pc = "prepare"]
               ELSE /\ switch_workers' = [switch_workers EXCEPT
                                            ![k].pc = "error",
                                            ![k].pause_error = TRUE]
                    /\ UNCHANGED <<exec_status, pause_requested>>
       ELSE /\ switch_workers' = [switch_workers EXCEPT ![k].pc = "prepare"]
            /\ UNCHANGED <<exec_status, pause_requested>>
    /\ notification' = "none"
    /\ UNCHANGED <<idVars, polVars, runVars, regVars, confirmation_callback,
                   confVars, fate, workers>>
    /\ UNCHANGED <<unmatched, conv_policy, reject_events>>
    /\ UNCHANGED acpVars
    /\ UNCHANGED viewVars
    /\ UNCHANGED marshalVars
    /\ UNCHANGED <<elapsed_seconds, condensing, loopVars>>
    /\ UNCHANGED turn_log

\* _perform_switch.worker.safe_prepare on the UI thread: _prepare_switch, or
\* an exception while the target runner is built, which leaves the reset and
\* clear_current done and hands over to _handle_switch_error.
SwitchPrepare(k) ==
    /\ switch_workers[k].pc = "prepare"
    /\ LET t == switch_workers[k].target
           rs == RunnersAfterClearCurrent(runners)
       IN
       \* reset_conversation_state; clear_current
       /\ running' = FALSE
       /\ conversation_start_time' = FALSE
       /\ elapsed_seconds' = ElapsedAfterReset
       /\ confirmation_policy' = PolicyAfterReset(confirmation_policy)
       /\ \E ok \in BOOLEAN :
             IF ok \/ t \in rs
             THEN \* get_or_create(target); finish_switching(target)
                  /\ runners' = rs \cup {t}
                  /\ conv_policy' = IF t \in rs
                                    THEN AttachConversationState(conv_policy, t)
                                    ELSE [conv_policy EXCEPT
                                            ![t] = confirmation_policy]
                  /\ attached_conversation' = IF t \in rs THEN None ELSE t
                  /\ current_runner' = t
                  /\ conversation_id' = t
                  /\ switch_confirmation_target' = None
                  /\ notification' = "Switched"
                  /\ switch_workers' = [switch_workers EXCEPT ![k].pc = "done"]
             ELSE /\ attached_conversation' = None
                  /\ current_runner' = CurrentAfterClearCurrent(current_runner)
                  /\ switch_workers' = [switch_workers EXCEPT ![k].pc = "error"]
                  /\ notification' = "none"
                  /\ runners' = rs
                  /\ UNCHANGED <<conv_policy, conversation_id,
                                 switch_confirmation_target>>
    /\ UNCHANGED <<store, runner_running,
                   confirmation_callback, confVars, fate, workers>>
    /\ UNCHANGED <<exec_status, unmatched, pause_requested, reject_events>>
    /\ UNCHANGED acpVars
    /\ UNCHANGED viewVars
    /\ UNCHANGED marshalVars
    /\ UNCHANGED <<condensing, loopVars>>
    /\ UNCHANGED turn_log

\* ConversationSwitchController._handle_switch_error
HandleSwitchError(k) ==
    /\ switch_workers[k].pc = "error"
    /\ LET prev == switch_workers[k].prev IN
       /\ IF prev # None
          THEN /\ runners' = runners \cup {prev}
               /\ conv_policy' = ConvPolicyAfterGetOrCreate(prev)
               /\ attached_conversation' = AttachedAfterGetOrCreate(prev)
               /\ current_runner' = prev
          ELSE UNCHANGED <<runners, conv_policy, attached_conversation,
                           current_runner>>
       /\ conversation_id' = prev
    /\ switch_confirmation_target' = None
    /\ notification' = "Switch Error"
    /\ switch_workers' = [switch_workers EXCEPT ![k].pc = "done"]
    /\ UNCHANGED <<confirmation_policy, runVars, store, confirmation_callback,
                   confVars, fate, workers>>
    /\ UNCHANGED <<exec_status, unmatched, pause_requested, reject_events>>
    /\ UNCHANGED acpVars
    /\ UNCHANGED viewVars
    /\ UNCHANGED marshalVars
    /\ UNCHANGED <<elapsed_seconds, condensing, loopVars>>
    /\ UNCHANGED turn_log


\* --------------------------------- ConversationView runner slot and turns
\* ConversationView.get_or_create_runner: the runner slot r after a
\* get-or-create for conversation id; an empty slot is filled with a newly
\* constructed runner (and engine conversation).
RunnerAfterGetOrCreate(r, id) ==
    IF r # NoRunner THEN r ELSE [id |-> id, n |-> created[id] + 1]

CreatedAfterGetOrCreate(r, id) ==
    IF r # NoRunner THEN created ELSE [created EXCEPT ![id] = @ + 1]

\* A user message on the view's runner: get_or_create_runner, then the turn
\* worker starts (_run_conversation_sync: _update_run_status(True)).  A runner
\* that is running gets the message queued instead.
ViewTurnStart ==
    /\ conversation_id # None
    /\ conversation_runner # NoRunner \/ created[conversation_id] < MaxConstructions
    /\ LET id == conversation_id
           r == RunnerAfterGetOrCreate(conversation_runner, id) IN
       /\ r \notin view_running
       /\ conversation_runner' = r
       /\ created' = CreatedAfterGetOrCreate(conversation_runner, id)
       /\ conv_policy' = IF conversation_runner = NoRunner
                         THEN [conv_policy EXCEPT ![id] = confirmation_policy]
                         ELSE conv_policy
       /\ attached_conversation' = IF conversation_runner = NoRunner THEN id
                                   ELSE attached_conversation
       /\ view_running' = view_running \cup {r}
       /\ exec_status' = [exec_status EXCEPT ![id] = "running"]
    /\ running' = TRUE
    /\ conversation_start_time' = StartTimeAfterSetRunning(TRUE)
    /\ elapsed_seconds' = ElapsedAfterSetRunning(TRUE)
    /\ notification' = "none"
    /\ UNCHANGED <<idVars, confirmation_policy, runner_running, regVars,
                   confirmation_callback, confVars, fate, workers,
                   switch_workers, is_switching, input_disabled, modal_target,
                   switch_confirmed>>
    /\ UNCHANGED <<unmatched, pause_requested, reject_events>>
    /\ UNCHANGED acpVars
    /\ UNCHANGED marshalVars
    /\ UNCHANGED <<condensing, loopVars>>
    /\ UNCHANGED turn_log

\* The turn of runner instance r ends (_run_conversation_sync, the finally
\* block: _update_run_status(False)); the engine has finished, or has paused
\* after a pause signal.
ViewTurnEnd(r) ==
    /\ r \in view_running
    /\ view_running' = view_running \ {r}
    /\ \E outcome \in {"finished", "paused"} :
          /\ outcome = "paused" => pause_requested[r.id]
          /\ exec_status' = [exec_status EXCEPT ![r.id] = outcome]
    /\ pause_requested' = [pause_requested EXCEPT ![r.id] = FALSE]
    /\ running' = FALSE
    /\ conversation_start_time' = StartTimeAfterSetRunning(FALSE)
    /\ elapsed_seconds' = ElapsedAfterSetRunning(FALSE)
    /\ notification' = "none"
    /\ UNCHANGED <<idVars, polVars, runner_running, regVars,
                   confirmation_callback, confVars, fate, workers,
                   switch_workers, conversation_runner, created, is_switching,
                   input_disabled, modal_target, switch_confirmed>>
    /\ UNCHANGED <<unmatched, conv_policy, reject_events>>
    /\ UNCHANGED acpVars
    /\ UNCHANGED marshalVars
    /\ UNCHANGED <<condensing, loopVars>>
    /\ UNCHANGED turn_log

\* OpenHandsApp.action_pause_conversation (the Esc binding) with
\* ConversationRunner.pause_runner_without_blocking and ConversationRunner.pause:
\* without a runner the application notifies; an idle runner does nothing; a
\* running one notifies and signals the engine.
ActionPauseConversation ==
    /\ IF conversation_runner = NoRunner
       THEN /\ notification' = "No running conversation to pause"
            /\ UNCHANGED <<exec_status, pause_requested>>
       ELSE IF conversation_runner \in view_running
       THEN /\ notification' = "Pausing conversation"
            /\ exec_status' = [exec_status EXCEPT
                                 ![conversation_runner.id] = StatusAfterPause(@)]
            /\ pause_requested' = [pause_requested EXCEPT
                                     ![conversation_runner.id] = TRUE]
       ELSE /\ notification' = "none"
            /\ UNCHANGED <<exec_status, pause_requested>>
    /\ UNCHANGED <<idVars, polVars, runVars, regVars, confirmation_callback,
                   confVars, fate, workers, switch_workers>>
    /\ UNCHANGED <<unmatched, conv_policy, reject_events>>
    /\ UNCHANGED acpVars
    /\ UNCHANGED viewVars
    /\ UNCHANGED marshalVars
    /\ UNCHANGED <<elapsed_seconds, condensing, loopVars>>
    /\ UNCHANGED turn_log

\* ------------------------------------------------- ConversationSwitcher
\* ConversationSwitcher._perform_switch: the already-active test, then
\* _show_loading (start_switching) and the launch of the switch worker.
SwitcherPerformSwitch(target_id, pause_current) ==
    IF conversation_id = target_id
    THEN /\ notification' = "Already Active"
         /\ UNCHANGED <<is_switching, switch_workers>>
    ELSE /\ created[target_id] < MaxConstructions
         /\ is_switching' = TRUE
         /\ notification' = "Switching"
         /\ \E k \in SwitchSlots :
               /\ switch_workers[k].pc \in {"none", "done"}
               /\ switch_workers' = [switch_workers EXCEPT
                                       ![k] = [pc |-> "start",
                                               target |-> target_id,
                                               prev |-> conversation_id,
                                               pause |-> pause_current,
                                               pause_error |-> FALSE]]

\* ConversationSwitcher.switch_to
SwitchTo(target_id, valid) ==
    /\ modal_target = None
    /\ IF ~valid
       THEN /\ notification' = "Switch Error"
            /\ UNCHANGED <<modal_target, is_switching, switch_workers>>
       ELSE IF conversation_runner # NoRunner /\ conversation_runner \in view_running
       THEN /\ modal_target' = target_id
            /\ notification' = "none"
            /\ UNCHANGED <<is_switching, switch_workers>>
       ELSE /\ SwitcherPerformSwitch(target_id, FALSE)
            /\ UNCHANGED modal_target
    /\ UNCHANGED <<idVars, polVars, runVars, regVars, confirmation_callback,
                   confVars, fate, workers, conversation_runner, created,
                   view_running, input_disabled, switch_confirmed>>
    /\ UNCHANGED engineVars
    /\ UNCHANGED acpVars
    /\ UNCHANGED marshalVars
    /\ UNCHANGED <<elapsed_seconds, condensing, loopVars>>
    /\ UNCHANGED turn_log

\* ConversationSwitcher._handle_confirmation (and _switch_with_pause)
HandleConfirmation(confirmed) ==
    /\ modal_target # None
    /\ modal_target' = None
    /\ switch_confirmed' = IF confirmed THEN "confirmed" ELSE "declined"
    /\ IF confirmed
       THEN /\ input_disabled' = TRUE
            /\ SwitcherPerformSwitch(modal_target, TRUE)
       ELSE /\ is_switching' = FALSE
            /\ notification' = "none"
            /\ UNCHANGED <<input_disabled, switch_workers>>
    /\ UNCHANGED <<idVars, polVars, runVars, regVars, confirmation_callback,
                   confVars, fate, workers, conversation_runner, created,
                   view_running>>
    /\ UNCHANGED engineVars
    /\ UNCHANGED acpVars
    /\ UNCHANGED marshalVars
    /\ UNCHANGED <<elapsed_seconds, condensing, loopVars>>
    /\ UNCHANGED turn_log

\* _perform_switch._worker, the pre-switch action (_pause_if_running): an
\* exception of the pause is swallowed.
SwitcherWorker(k) ==
    /\ switch_workers[k].pc = "start"
    /\ IF /\ switch_workers[k].pause
          /\ conversation_runner # NoRunner
          /\ conversation_runner \in view_running
       THEN \E ok \in BOOLEAN :
               IF ok
               THEN /\ exec_status' = [exec_status EXCEPT
                          ![conversation_runner.id] = StatusAfterPause(@)]
                    /\ pause_requested' = [pause_requested EXCEPT
                          ![conversation_runner.id] = TRUE]
                    /\ switch_workers' = [switch_workers EXCEPT
                                            ![k].pc = "prepare_ui"]
               ELSE /\ switch_workers' = [switch_workers EXCEPT
                                            ![k].pc = "prepare_ui",
                                            ![k].pause_error = TRUE]
                    /\ UNCHANGED <<exec_status, pause_requested>>
       ELSE /\ switch_workers' = [switch_workers EXCEPT ![k].pc = "prepare_ui"]
            /\ UNCHANGED <<exec_status, pause_requested>>
    /\ notification' = "none"
    /\ UNCHANGED <<idVars, polVars, runVars, regVars, confirmation_callback,
                   confVars, fate, workers, viewVars>>
    /\ UNCHANGED <<unmatched, conv_policy, reject_events>>
    /\ UNCHANGED acpVars
    /\ UNCHANGED marshalVars
    /\ UNCHANGED <<elapsed_seconds, condensing, loopVars>>
    /\ UNCHANGED turn_log

\* ConversationSwitcher._prepare_ui (on the UI thread)
PrepareUi(k) ==
    /\ switch_workers[k].pc = "prepare_ui"
    /\ conversation_id' = switch_workers[k].target
    /\ conversation_runner' = NoRunner
    /\ panel' = NoPanel
    /\ switch_workers' = [switch_workers EXCEPT ![k].pc = "create"]
    /\ notification' = "none"
    /\ UNCHANGED <<switch_confirmation_target, polVars, runVars, regVars,
                   confirmation_callback, pending_action_count, fate, workers,
                   created, view_running, is_switching, input_disabled,
                   modal_target, switch_confirmed>>
    /\ UNCHANGED engineVars
    /\ UNCHANGED acpVars
    /\ UNCHANGED marshalVars
    /\ UNCHANGED <<elapsed_seconds, condensing, loopVars>>
    /\ UNCHANGED turn_log

\* _switch_thread._create_runner_for_conversation (on the UI thread): the
\* runner of the target is constructed and _finish_switch completes the
\* switch, or the construction raises and _switch_thread goes to its handler.
CreateRunnerForConversation(k) ==
    /\ switch_workers[k].pc = "create"
    /\ LET t == switch_workers[k].target IN
       /\ conversation_id' = t
       /\ conversation_runner' = NoRunner
       /\ \E ok \in BOOLEAN :
             IF ok
             THEN /\ created' = CreatedAfterGetOrCreate(NoRunner, t)
                  /\ conv_policy' = [conv_policy EXCEPT ![t] = confirmation_policy]
                  \* _finish_switch: _dismiss_loading, reset_conversation_state
                  /\ is_switching' = FALSE
                  /\ running' = FALSE
                  /\ conversation_start_time' = FALSE
                  /\ elapsed_seconds' = ElapsedAfterReset
                  /\ attached_conversation' = None
                  /\ confirmation_policy' = PolicyAfterReset(confirmation_policy)
                  /\ notification' = "Switched"
                  /\ input_disabled' = FALSE
                  /\ switch_workers' = [switch_workers EXCEPT ![k].pc = "done"]
             ELSE /\ switch_workers' = [switch_workers EXCEPT ![k].pc = "error"]
                  /\ notification' = "none"
                  /\ UNCHANGED <<created, conv_policy, is_switching, running,
                                 conversation_start_time, attached_conversation,
                                 input_disabled, confirmation_policy,
                                 elapsed_seconds>>
    /\ UNCHANGED <<switch_confirmation_target,
                   runner_running, regVars, confirmation_callback, confVars,
                   fate, workers, view_running, modal_target,
                   switch_confirmed>>
    /\ UNCHANGED <<exec_status, unmatched, pause_requested, reject_events>>
    /\ UNCHANGED acpVars
    /\ UNCHANGED marshalVars
    /\ UNCHANGED <<condensing, loopVars>>
    /\ UNCHANGED turn_log

\* _switch_thread._show_error (on the UI thread)
ShowError(k) ==
    /\ switch_workers[k].pc = "error"
    /\ is_switching' = FALSE
    /\ notification' = "Switch Error"
    /\ switch_workers' = [switch_workers EXCEPT ![k].pc = "done"]
    /\ UNCHANGED <<idVars, polVars, runVars, regVars, confirmation_callback,
                   confVars, fate, workers, conversation_runner, created,
                   view_running, input_disabled, modal_target,
                   switch_confirmed>>
    /\ UNCHANGED engineVars
    /\ UNCHANGED acpVars
    /\ UNCHANGED marshalVars
    /\ UNCHANGED <<elapsed_seconds, condensing, loopVars>>
    /\ UNCHANGED turn_log

\* ------------------------------------------------------------ ACP agent
\* OpenHandsACPAgent._set_confirmation_mode (the /confirm command)
AcpSetConfirmationMode(sid, enabled) ==
    /\ confirmation_mode[sid] # enabled
    /\ confirmation_mode' = [confirmation_mode EXCEPT ![sid] = enabled]
    /\ conv_policy' = IF sid \in active_sessions
                      THEN [conv_policy EXCEPT
                              ![sid] = IF enabled THEN "AlwaysConfirm"
                                       ELSE "NeverConfirm"]
                      ELSE conv_policy
    /\ UNCHANGED <<active_sessions, running_tasks, tasks, cancel_call>>
    /\ UNCHANGED <<exec_status, unmatched, pause_requested, reject_events>>
    /\ UNCHANGED tuiVars
    /\ UNCHANGED marshalVars
    /\ UNCHANGED <<elapsed_seconds, condensing, loopVars>>
    /\ UNCHANGED turn_log

\* ask_user_confirmation_acp: the decision made of the client's answer to
\* the permission request.
AcpResponses == {"accept", "reject", "always_proceed", "risk_based", "unknown",
                 "denied", "exception"}

NoChange == [decision |-> "ACCEPT", policy_change |-> "none",
             threshold |-> "none", reason |-> "none"]

\* A handler that takes an option it does not know for an approval.
AskUserConfirmationAcpLenient(n, resp) ==
    IF n = 0 \/ resp \in {"accept", "unknown"} THEN NoChange
    ELSE IF resp = "always_proceed"
    THEN [NoChange EXCEPT !.policy_change = "NeverConfirm"]
    ELSE IF resp = "risk_based"
    THEN [NoChange EXCEPT !.policy_change = "ConfirmRisky", !.threshold = "HIGH"]
    ELSE IF resp = "exception" THEN [NoChange EXCEPT !.decision = "DEFER"]
    ELSE [NoChange EXCEPT !.decision = "REJECT"]

\* ask_user_confirmation_acp: the ConfirmationResult for n pending actions
\* and the client's answer.
AskUserConfirmationAcp(n, resp) ==
    IF n = 0 THEN NoChange
    ELSE CASE resp = "accept" -> NoChange
           [] resp = "reject" ->
                 [NoChange EXCEPT !.decision = "REJECT",
                                  !.reason = "User rejected via ACP"]
           [] resp = "always_proceed" ->
                 [NoChange EXCEPT !.policy_change = "NeverConfirm"]
           [] resp = "risk_based" ->
                 [NoChange EXCEPT !.policy_change = "ConfirmRisky",
                                  !.threshold = "HIGH"]
           [] resp = "unknown" -> [NoChange EXCEPT !.decision = "REJECT"]
           [] resp = "denied" ->
                 [NoChange EXCEPT !.decision = "REJECT",
                                  !.reason = "User cancelled via ACP"]
           [] resp = "exception" -> [NoChange EXCEPT !.decision = "DEFER"]

\* ACPConversationRunner._handle_confirmation_request: the result of a
\* request for pending actions, an approval with a policy change being what
\* the TUI calls ALWAYS_PROCEED and CONFIRM_RISKY.
AcpDecisionOf(resp) ==
    LET r == AskUserConfirmationAcp(1, resp) IN
    IF r.decision = "ACCEPT" /\ r.policy_change = "NeverConfirm"
    THEN "ALWAYS_PROCEED"
    ELSE IF r.decision = "ACCEPT" /\ r.policy_change = "ConfirmRisky"
    THEN "CONFIRM_RISKY"
    ELSE r.decision

\* ACPConversationRunner._handle_confirmation_request up to the permission
\* request: the task record tr after the request for the pending actions.
AcpConfirmationRequest(tr, pending) ==
    IF NoPendingActions(pending)
    THEN [tr EXCEPT !.pc = "loop", !.decision = "ACCEPT"]
    ELSE [tr EXCEPT !.pc = "ask", !.escalated = TRUE]

\* OpenHandsACPAgent.prompt for a plain message: get or create the
\* conversation, send the message, create the run task (whose first step
\* starts the engine thread or, in confirmation mode, does the resume check)
\* and record it in _running_tasks.
AcpPrompt(m, sid) ==
    /\ tasks[m].pc = "none"
    /\ \A k \in Msgs : k < m => tasks[k].pc # "none"
    /\ active_sessions' = active_sessions \cup {sid}
    /\ fate' = [fate EXCEPT ![m] = "sent"]
    /\ running_tasks' = [running_tasks EXCEPT ![sid] = m]
    /\ LET t0 == [NoTask EXCEPT !.sid = sid, !.prompt = "awaiting"] IN
       IF confirmation_mode[sid] /\ exec_status[sid] = "waiting"
       THEN /\ tasks' = [tasks EXCEPT
                           ![m] = AcpConfirmationRequest(t0, unmatched[sid])]
            /\ UNCHANGED <<exec_status, unmatched, pause_requested>>
       ELSE /\ tasks' = [tasks EXCEPT
                           ![m] = [t0 EXCEPT
                                     !.pc = IF confirmation_mode[sid]
                                            THEN "in_run" ELSE "plain",
                                     !.thread = "running"]]
            /\ exec_status' = [exec_status EXCEPT ![sid] = "running"]
            /\ unmatched' = [unmatched EXCEPT ![sid] = 0]
            /\ pause_requested' = [pause_requested EXCEPT ![sid] = FALSE]
    /\ UNCHANGED <<confirmation_mode, cancel_call>>
    /\ UNCHANGED <<conv_policy, reject_events>>
    /\ notification' = "none"
    /\ UNCHANGED <<idVars, polVars, runVars, regVars, confirmation_callback,
                   confVars, workers, switch_workers>>
    /\ UNCHANGED viewVars
    /\ UNCHANGED marshalVars
    /\ UNCHANGED <<elapsed_seconds, condensing, loopVars>>
    /\ UNCHANGED turn_log

\* run_with_confirmation, the status test after the engine step (the same
\* dispatch as the TUI loop, with an explicit branch for paused).
AcpTaskAfterRun(tr, outcome, n) ==
    IF tr.pc = "plain" THEN [tr EXCEPT !.pc = "done", !.thread = "none"]
    ELSE IF tr.pc = "in_run"
    THEN IF LoopAsksConfirmation(outcome)
         THEN AcpConfirmationRequest([tr EXCEPT !.thread = "none"], n)
         ELSE [tr EXCEPT !.pc = "done", !.thread = "none"]
    ELSE [tr EXCEPT !.thread = "none"]

\* The thread of asyncio.to_thread(conversation.run) returns from the engine
\* step; a task that was cancelled meanwhile no longer waits for it.
AcpThreadReturn(m) ==
    /\ tasks[m].thread = "running"
    /\ LET id == tasks[m].sid IN
       \E outcome \in RunOutcomes, n \in 0..MaxActions :
          /\ outcome = "waiting" => conv_policy[id] # "NeverConfirm"
          /\ outcome = "paused" => pause_requested[id]
          /\ outcome # "waiting" => n = 0
          /\ exec_status' = [exec_status EXCEPT ![id] = outcome]
          /\ unmatched' = [unmatched EXCEPT ![id] = n]
          /\ tasks' = [tasks EXCEPT ![m] = AcpTaskAfterRun(@, outcome, n)]
    /\ UNCHANGED <<active_sessions, confirmation_mode, running_tasks, cancel_call>>
    /\ UNCHANGED <<pause_requested, conv_policy, reject_events>>
    /\ UNCHANGED tuiVars
    /\ UNCHANGED marshalVars
    /\ UNCHANGED <<elapsed_seconds, condensing, loopVars>>
    /\ UNCHANGED turn_log

\* The client answers the permission request (or the request fails);
\* _handle_confirmation_request applies the decision.
AcpPermissionOutcome(m, resp) ==
    /\ tasks[m].pc = "ask"
    /\ LET id == tasks[m].sid
           d == AcpDecisionOf(resp)
       IN
       /\ reject_events' = IF d = "REJECT"
                           THEN [reject_events EXCEPT
                                   ![id] = @ \cup {RejectReason}]
                           ELSE reject_events
       /\ unmatched' = IF d = "REJECT" THEN [unmatched EXCEPT ![id] = 0]
                       ELSE unmatched
       /\ exec_status' = IF d = "DEFER"
                         THEN [exec_status EXCEPT ![id] = StatusAfterPause(@)]
                         ELSE exec_status
       /\ pause_requested' = IF d = "DEFER"
                             THEN [pause_requested EXCEPT ![id] = TRUE]
                             ELSE pause_requested
       /\ conv_policy' = [conv_policy EXCEPT ![id] = PolicyOfDecision(d, @)]
       /\ tasks' = [tasks EXCEPT
                      ![m].pc = IF TurnEndsAfter(d) THEN "done" ELSE "loop",
                      ![m].decision = d,
                      ![m].rejected = (d = "REJECT")]
    /\ UNCHANGED <<active_sessions, confirmation_mode, running_tasks, cancel_call>>
    /\ UNCHANGED tuiVars
    /\ UNCHANGED marshalVars
    /\ UNCHANGED <<elapsed_seconds, condensing, loopVars>>
    /\ UNCHANGED turn_log

\* run_with_confirmation: "await asyncio.to_thread(self.conversation.run)"
AcpLoopRun(m) ==
    /\ tasks[m].pc = "loop"
    /\ LET id == tasks[m].sid IN
       /\ exec_status' = [exec_status EXCEPT ![id] = "running"]
       /\ unmatched' = [unmatched EXCEPT ![id] = 0]
       /\ pause_requested' = [pause_requested EXCEPT ![id] = FALSE]
    /\ tasks' = [tasks EXCEPT ![m].pc = "in_run", ![m].thread = "running",
                              ![m].decision = "NONE", ![m].rejected = FALSE]
    /\ UNCHANGED <<active_sessions, confirmation_mode, running_tasks, cancel_call>>
    /\ UNCHANGED <<conv_policy, reject_events>>
    /\ UNCHANGED tuiVars
    /\ UNCHANGED marshalVars
    /\ UNCHANGED <<elapsed_seconds, condensing, loopVars>>
    /\ UNCHANGED turn_log

\* asyncio.Task.done()
TaskDone(m) == tasks[m].pc \in {"done", "cancelled"}

\* prompt: "try: await run_task finally: self._running_tasks.pop(session_id)"
AcpPromptReturn(m) ==
    /\ tasks[m].prompt = "awaiting"
    /\ TaskDone(m)
    /\ tasks' = [tasks EXCEPT ![m] = [NoTask EXCEPT !.sid = tasks[m].sid,
                                                  !.pc = tasks[m].pc,
                                                  !.thread = tasks[m].thread,
                                                  !.prompt = "returned"]]
    /\ running_tasks' = [running_tasks EXCEPT ![tasks[m].sid] = None]
    /\ UNCHANGED <<active_sessions, confirmation_mode, cancel_call>>
    /\ UNCHANGED engineVars
    /\ UNCHANGED tuiVars
    /\ UNCHANGED marshalVars
    /\ UNCHANGED <<elapsed_seconds, condensing, loopVars>>
    /\ UNCHANGED turn_log

\* A cancel that waits for any recorded task, settled or not.
CancelWaitsOnAnyTask(rt) == rt # None

\* cancel: "if not running_task or running_task.done(): return"
CancelWaits(rt) == rt # None /\ ~TaskDone(rt)

\* OpenHandsACPAgent.cancel up to the wait: the pause signal, then the look-up
\* of the running task.
AcpCancel(sid) ==
    /\ cancel_call.pc = "idle"
    /\ active_sessions' = active_sessions \cup {sid}
    /\ exec_status' = [exec_status EXCEPT ![sid] = StatusAfterPause(@)]
    /\ pause_requested' = [pause_requested EXCEPT ![sid] = TRUE]
    /\ LET rt == running_tasks[sid] IN
       cancel_call' = IF CancelWaits(rt)
                      THEN [sid |-> sid, pc |-> "waiting", task |-> rt,
                            trace |-> <<"pause", "wait">>]
                      ELSE [sid |-> sid, pc |-> "returned", task |-> None,
                            trace |-> <<"pause", "return">>]
    /\ UNCHANGED <<confirmation_mode, running_tasks, tasks>>
    /\ UNCHANGED <<unmatched, conv_policy, reject_events>>
    /\ UNCHANGED tuiVars
    /\ UNCHANGED marshalVars
    /\ UNCHANGED <<elapsed_seconds, condensing, loopVars>>
    /\ UNCHANGED turn_log

\* _wait_for_task_completion: the task settles within the timeout
AcpCancelSettled ==
    /\ cancel_call.pc = "waiting"
    /\ TaskDone(cancel_call.task)
    /\ cancel_call' = [cancel_call EXCEPT !.pc = "returned",
                                          !.trace = Append(@, "return")]
    /\ UNCHANGED <<active_sessions, confirmation_mode, running_tasks, tasks>>
    /\ UNCHANGED engineVars
    /\ UNCHANGED tuiVars
    /\ UNCHANGED marshalVars
    /\ UNCHANGED <<elapsed_seconds, condensing, loopVars>>
    /\ UNCHANGED turn_log

\* _wait_for_task_completion: the timeout expires with the task unsettled and
\* the task is cancelled.  Cancelling the task does not stop the thread that
\* executes the engine step.
AcpCancelTimeout ==
    /\ cancel_call.pc = "waiting"
    /\ ~TaskDone(cancel_call.task)
    /\ tasks' = [tasks EXCEPT ![cancel_call.task].pc = "cancelled"]
    /\ cancel_call' = [cancel_call EXCEPT
                         !.pc = "forced",
                         !.trace = @ \o <<"timeout", "force_cancel">>]
    /\ UNCHANGED <<active_sessions, confirmation_mode, running_tasks>>
    /\ UNCHANGED engineVars
    /\ UNCHANGED tuiVars
    /\ UNCHANGED marshalVars
    /\ UNCHANGED <<elapsed_seconds, condensing, loopVars>>
    /\ UNCHANGED turn_log

\* _wait_for_task_completion: "await task" after the forced cancel, with the
\* CancelledError absorbed.
AcpCancelAbsorb ==
    /\ cancel_call.pc = "forced"
    /\ cancel_call' = [cancel_call EXCEPT
                         !.pc = "returned",
                         !.trace = @ \o <<"await", "absorb", "return">>]
    /\ UNCHANGED <<active_sessions, confirmation_mode, running_tasks, tasks>>
    /\ UNCHANGED engineVars
    /\ UNCHANGED tuiVars
    /\ UNCHANGED marshalVars
    /\ UNCHANGED <<elapsed_seconds, condensing, loopVars>>
    /\ UNCHANGED turn_log

\* cancel has returned to the client
AcpCancelDone ==
    /\ cancel_call.pc = "returned"
    /\ cancel_call' = NoCancel
    /\ UNCHANGED <<active_sessions, confirmation_mode, running_tasks, tasks>>
    /\ UNCHANGED engineVars
    /\ UNCHANGED tuiVars
    /\ UNCHANGED marshalVars
    /\ UNCHANGED <<elapsed_seconds, condensing, loopVars>>
    /\ UNCHANGED turn_log

\* ------------------------------------------------------- specifications
\* One conversation's turns: messages, the turn worker, the confirmation
\* panel, pause and policy changes.
Next ==
    \/ \E m \in TurnMsgs : HandleUserMessage(m)
    \/ \E w \in Msgs : WorkerStart(w)
    \/ \E w \in Msgs : WorkerRun(w)
    \/ \E w \in Msgs : EngineReturn(w)
    \/ \E w \in Msgs : EngineRaise(w)
    \/ \E w \in Msgs : ShowConfirmationPanel(w)
    \/ \E d \in Decisions : PanelDecision(d)
    \/ \E w \in Msgs : DecisionTimeout(w)
    \/ \E w \in Msgs : WorkerApply(w)
    \/ \E w \in Msgs : WorkerFinally(w)
    \/ PauseConversation
    \/ \E p \in Policies : SetConfirmationPolicy(p)

Spec == Init /\ [][Next]_vars

\* Message submissions in quick succession under the NeverConfirm policy.
InitRace == Init /\ confirmation_policy = "NeverConfirm" /\ confirmation_callback

NextRace ==
    \/ \E m \in Msgs : HandleUserMessage(m)
    \/ \E w \in Msgs : WorkerStart(w)
    \/ \E w \in Msgs : WorkerRun(w)
    \/ \E w \in Msgs : EngineReturn(w)
    \/ \E w \in Msgs : EngineRaise(w)
    \/ \E w \in Msgs : WorkerFinally(w)

SpecRace == InitRace /\ [][NextRace]_vars

\* Conversations: creation, switching, policy changes and turns.
InitSwitch == Init /\ confirmation_policy = "NeverConfirm" /\ confirmation_callback

NextSwitch ==
    \/ \E m \in TurnMsgs : HandleUserMessage(m)
    \/ \E w \in Msgs : WorkerStart(w)
    \/ \E w \in Msgs : WorkerRun(w)
    \/ \E w \in Msgs : EngineReturn(w)
    \/ \E w \in Msgs : ShowConfirmationPanel(w)
    \/ \E d \in Decisions : PanelDecision(d)
    \/ \E w \in Msgs : WorkerApply(w)
    \/ \E w \in Msgs : WorkerFinally(w)
    \/ \E p \in Policies : SetConfirmationPolicy(p)
    \/ CreateConversation
    \/ \E t \in Ids : RequestSwitch(t)
    \/ \E c \in BOOLEAN : HandleSwitchConfirmed(c)
    \/ \E k \in SwitchSlots : SwitchWorkerPause(k)
    \/ \E k \in SwitchSlots : SwitchPrepare(k)
    \/ \E k \in SwitchSlots : HandleSwitchError(k)

SpecSwitch == InitSwitch /\ [][NextSwitch]_vars

\* A resumed conversation: the application is started with
\* resume_conversation_id and the stored conversation was left waiting for
\* confirmation with unmatched actions.
InitResume ==
    /\ InitTui /\ InitAcp /\ InitMarshal /\ InitAux
    /\ exec_status = [i \in Ids |-> IF i = 1 THEN "waiting" ELSE "idle"]
    /\ unmatched \in {[i \in Ids |-> IF i = 1 THEN n ELSE 0] : n \in 1..MaxActions}
    /\ pause_requested = [i \in Ids |-> FALSE]
    /\ conv_policy = [i \in Ids |-> "NeverConfirm"]
    /\ reject_events = [i \in Ids |-> {}]

SpecResume == InitResume /\ [][Next]_vars

\* One conversation's turns with the turn log kept.
InitLogged ==
    /\ InitEngine /\ InitAcp /\ InitMarshal /\ InitAux
    /\ conversation_id = 1
    /\ switch_confirmation_target = None
    /\ running = FALSE
    /\ confirmation_policy \in Policies
    /\ attached_conversation = None
    /\ pending_action_count = 0
    /\ conversation_start_time = FALSE
    /\ store = {1}
    /\ runners = {}
    /\ current_runner = None
    /\ runner_running = [i \in Ids |-> FALSE]
    /\ confirmation_callback \in BOOLEAN
    /\ fate = [m \in Msgs |-> "new"]
    /\ workers = [m \in Msgs |-> NoWorker]
    /\ panel = NoPanel
    /\ notification = "none"
    /\ switch_workers = [k \in SwitchSlots |-> NoSwitch]
    /\ turn_log = TRUE
    /\ conversation_runner = NoRunner
    /\ created = [i \in Ids |-> 0]
    /\ view_running = {}
    /\ is_switching = FALSE
    /\ input_disabled = FALSE
    /\ modal_target = None
    /\ switch_confirmed = "none"

SpecLogged == InitLogged /\ [][Next]_vars

\* The application's ConversationSwitcher over the view's runner slot:
\* turns, switches with and without confirmation, and failures.
InitSwitcher == Init /\ confirmation_policy = "NeverConfirm" /\ confirmation_callback

NextSwitcher ==
    \/ ViewTurnStart
    \/ \E r \in Instances : ViewTurnEnd(r)
    \/ ActionPauseConversation
    \/ \E t \in Ids, valid \in BOOLEAN : SwitchTo(t, valid)
    \/ \E c \in BOOLEAN : HandleConfirmation(c)
    \/ \E k \in SwitchSlots : SwitcherWorker(k)
    \/ \E k \in SwitchSlots : PrepareUi(k)
    \/ \E k \in SwitchSlots : CreateRunnerForConversation(k)
    \/ \E k \in SwitchSlots : ShowError(k)

SpecSwitcher == InitSwitcher /\ [][NextSwitcher]_vars

\* The ACP agent serving one session: prompts, the confirmation mode and
\* cancellation.  Sessions share nothing but the dictionaries keyed by their id.
AcpSession == 1

InitAcpAgent == Init /\ confirmation_policy = "NeverConfirm" /\ confirmation_callback

NextAcp ==
    \/ \E e \in BOOLEAN : AcpSetConfirmationMode(AcpSession, e)
    \/ \E m \in TurnMsgs : AcpPrompt(m, AcpSession)
    \/ \E m \in Msgs : AcpThreadReturn(m)
    \/ \E m \in Msgs, r \in AcpResponses : AcpPermissionOutcome(m, r)
    \/ \E m \in Msgs : AcpLoopRun(m)
    \/ \E m \in Msgs : AcpPromptReturn(m)
    \/ AcpCancel(AcpSession)
    \/ AcpCancelSettled
    \/ AcpCancelTimeout
    \/ AcpCancelAbsorb
    \/ AcpCancelDone

SpecAcp == InitAcpAgent /\ [][NextAcp]_vars

\* ------------------------------------------- threads and marshalling
MainThread == "main"
StateAttrs == {"running", "confirmation_policy", "metrics"}

\* A scheduler that sets the attribute on whatever thread calls it.
UpdateRunsOnCaller(caller) == caller

\* ConversationView._schedule_update: the thread that executes the setattr;
\* on the main thread it is done at once, from any other thread it is posted
\* to the main thread with app.call_from_thread.
UpdateRunsOn(caller) == IF caller = MainThread THEN caller ELSE MainThread

\* A loop that takes the callback posted last.
NextCallbackLast(q) == Len(q)

\* The control thread's event loop runs the posted callbacks first in, first
\* out (call_soon_threadsafe).
NextCallback(q) == 1

\* ConversationRunner.process_message_async: _run_conversation_sync is run
\* with run_in_executor(None, ...), on a thread of the default executor.
TurnLoopThread == "worker"

\* process_message_async: the turn loop of producer p starts in its thread
ProcessMessageAsync(p) ==
    /\ producers[p].kind = "none"
    /\ producers' = [producers EXCEPT ![p].kind = "tui",
                                      ![p].thread = TurnLoopThread]
    /\ UNCHANGED <<call_queue, applied>>
    /\ UNCHANGED <<tuiVars, engineVars, acpVars>>
    /\ UNCHANGED <<elapsed_seconds, condensing, loopVars>>

\* OpenHandsACPAgent.prompt: conversation.run is run with asyncio.to_thread
AcpRunInThread(p) ==
    /\ producers[p].kind = "none"
    /\ producers' = [producers EXCEPT ![p].kind = "acp", ![p].thread = "worker"]
    /\ UNCHANGED <<call_queue, applied>>
    /\ UNCHANGED <<tuiVars, engineVars, acpVars>>
    /\ UNCHANGED <<elapsed_seconds, condensing, loopVars>>

\* The turn loop of p calls set_running / set_confirmation_policy /
\* set_metrics: _schedule_update either sets the attribute at once or posts
\* the update and blocks until the main thread has run it.
ScheduleUpdate(p, attr) ==
    /\ producers[p].kind = "tui"
    /\ ~producers[p].blocked
    /\ producers[p].emitted < MaxUpdates
    /\ LET n == producers[p].emitted + 1
           t == UpdateRunsOn(producers[p].thread)
           u == [p |-> p, seq |-> n, attr |-> attr, blocking |-> TRUE]
       IN IF t = producers[p].thread
          THEN /\ applied' = Append(applied, [p |-> p, seq |-> n, attr |-> attr,
                                              thread |-> t])
               /\ producers' = [producers EXCEPT ![p].emitted = n]
               /\ UNCHANGED call_queue
          ELSE /\ call_queue' = Append(call_queue, u)
               /\ producers' = [producers EXCEPT ![p].emitted = n,
                                                 ![p].blocked = TRUE]
               /\ UNCHANGED applied
    /\ UNCHANGED <<tuiVars, engineVars, acpVars>>
    /\ UNCHANGED <<elapsed_seconds, condensing, loopVars>>

\* _setup_acp_conversation.sync_callback: the engine thread of p emits an
\* event; run_coroutine_threadsafe posts subscriber(event) to the loop and
\* returns at once.
SyncCallback(p) ==
    /\ producers[p].kind = "acp"
    /\ producers[p].emitted < MaxUpdates
    /\ LET n == producers[p].emitted + 1 IN
       /\ call_queue' = Append(call_queue, [p |-> p, seq |-> n, attr |-> "event",
                                            blocking |-> FALSE])
       /\ producers' = [producers EXCEPT ![p].emitted = n]
    /\ UNCHANGED applied
    /\ UNCHANGED <<tuiVars, engineVars, acpVars>>
    /\ UNCHANGED <<elapsed_seconds, condensing, loopVars>>

\* EventSubscriber.__call__(event): the update of the event is sent to the
\* client in one step of the loop.
SubscriberDelivers(u) == <<u>>

\* The control thread's loop runs one posted callback: do_update sets the
\* attribute (and releases the caller of call_from_thread), subscriber(event)
\* delivers the event's update.
ControlRunsCallback ==
    /\ call_queue # <<>>
    /\ LET i == NextCallback(call_queue)
           u == call_queue[i]
           w == [p |-> u.p, seq |-> u.seq, attr |-> u.attr, thread |-> MainThread]
       IN
       /\ call_queue' = [j \in 1..(Len(call_queue) - 1) |->
                            IF j < i THEN call_queue[j] ELSE call_queue[j + 1]]
       /\ applied' = IF u.blocking THEN Append(applied, w)
                     ELSE applied \o SubscriberDelivers(w)
       /\ producers' = IF u.blocking
                       THEN [producers EXCEPT ![u.p].blocked = FALSE]
                       ELSE producers
    /\ UNCHANGED <<tuiVars, engineVars, acpVars>>
    /\ UNCHANGED <<elapsed_seconds, condensing, loopVars>>

\* A handler on the main thread sets an attribute (the policy selected in
\* the confirmation settings modal): done at once.
MainThreadUpdate(attr) ==
    /\ Len(SelectSeq(applied, LAMBDA e : e.p = None)) < MaxUpdates
    /\ applied' = Append(applied, [p |-> None, seq |-> 0, attr |-> attr,
                                   thread |-> UpdateRunsOn(MainThread)])
    /\ UNCHANGED <<producers, call_queue>>
    /\ UNCHANGED <<tuiVars, engineVars, acpVars>>
    /\ UNCHANGED <<elapsed_seconds, condensing, loopVars>>

NextMarshal ==
    \/ \E p \in 1..MaxProducers : ProcessMessageAsync(p)
    \/ \E p \in 1..MaxProducers : AcpRunInThread(p)
    \/ \E p \in 1..MaxProducers, attr \in StateAttrs : ScheduleUpdate(p, attr)
    \/ \E p \in 1..MaxProducers : SyncCallback(p)
    \/ ControlRunsCallback
    \/ \E attr \in StateAttrs : MainThreadUpdate(attr)

SpecMarshal == InitSwitch /\ [][NextMarshal]_vars

\* ---------------------------------------------------------- condensation
\* ConversationManager._on_condense_conversation up to the start of
\* asyncio.to_thread(conversation.condense): refused without a current
\* runner and while the current runner is running.
CondenseConversation ==
    /\ IF current_runner = None
       THEN /\ notification' = "No conversation available to condense"
            /\ UNCHANGED condensing
       ELSE IF runner_running[current_runner]
       THEN /\ notification' = "Cannot condense while conversation is running."
            /\ UNCHANGED condensing
       ELSE /\ current_runner \notin condensing
            /\ notification' = "Condensation Started"
            /\ condensing' = condensing \cup {current_runner}
    /\ UNCHANGED <<idVars, polVars, runVars, regVars, confirmation_callback,
                   confVars, fate, workers, switch_workers, turn_log>>
    /\ UNCHANGED viewVars
    /\ UNCHANGED <<engineVars, acpVars, marshalVars, elapsed_seconds, loopVars>>

\* conversation.condense() returns or raises in its thread
CondenseReturn(id) ==
    /\ id \in condensing
    /\ condensing' = condensing \ {id}
    /\ \E ok \in BOOLEAN :
          notification' = IF ok THEN "Condensation Complete"
                          ELSE "Condensation Error"
    /\ UNCHANGED <<idVars, polVars, runVars, regVars, confirmation_callback,
                   confVars, fate, workers, switch_workers, turn_log>>
    /\ UNCHANGED viewVars
    /\ UNCHANGED <<engineVars, acpVars, marshalVars, elapsed_seconds, loopVars>>

\* Condense requests interleaved with message submissions and turns.
NextCondense ==
    \/ \E m \in Msgs : HandleUserMessage(m)
    \/ \E w \in Msgs : WorkerStart(w)
    \/ \E w \in Msgs : WorkerRun(w)
    \/ \E w \in Msgs : EngineReturn(w)
    \/ \E w \in Msgs : WorkerFinally(w)
    \/ CondenseConversation
    \/ \E id \in Ids : CondenseReturn(id)

SpecCondense == InitRace /\ [][NextCondense]_vars

\* ------------------------------------------- the two turn loops compared
\* What the user does with a confirmation request: one of the four options,
\* or nothing the request can return (the wait or the transport fails).
Answers == {"accept", "reject", "always", "risky", "fail"}

\* InlineConfirmationPanel options and the failure paths of
\* OpenHandsApp._handle_confirmation_request.
TuiDecisionOf(a) ==
    CASE a = "accept" -> "ACCEPT"
      [] a = "reject" -> "REJECT"
      [] a = "always" -> "ALWAYS_PROCEED"
      [] a = "risky" -> "CONFIRM_RISKY"
      [] a = "fail" -> "DEFER"

\* The permission options of ask_user_confirmation_acp and a failed request.
AcpResponseOf(a) ==
    CASE a = "accept" -> "accept"
      [] a = "reject" -> "reject"
      [] a = "always" -> "always_proceed"
      [] a = "risky" -> "risk_based"
      [] a = "fail" -> "exception"

RunCall == [call |-> "run", arg |-> "none"]

\* The engine calls _handle_confirmation_request makes for a decision.  The
\* TUI runner changes the policy through the state container, which reaches
\* the engine conversation only when that conversation is the attached one;
\* the ACP runner calls conversation.set_confirmation_policy itself.
CallsOfDecision(side, inp, d) ==
    IF d = "REJECT"
    THEN <<[call |-> "reject_pending_actions", arg |-> "reason"]>>
    ELSE IF PausesEngine(d) THEN <<[call |-> "pause", arg |-> "none"]>>
    ELSE IF d \in {"ALWAYS_PROCEED", "CONFIRM_RISKY"}
            /\ (side = "acp" \/ inp.attached)
    THEN <<[call |-> "set_confirmation_policy",
            arg |-> PolicyOfDecision(d, "none")]>>
    ELSE <<>>

\* _handle_confirmation_request of either runner for n pending actions: the
\* decision, the engine calls made and the answers left.
HandleRequest(side, inp, n, answers) ==
    IF NoPendingActions(n)
    THEN [decision |-> "ACCEPT", calls |-> <<>>, rest |-> answers]
    ELSE IF side = "tui" /\ ~inp.callback
    THEN [decision |-> DecisionWithoutCallback, calls |-> <<>>, rest |-> answers]
    ELSE LET a == IF answers = <<>> THEN "fail" ELSE Head(answers)
             d == IF side = "tui" THEN TuiDecisionOf(a)
                  ELSE AcpDecisionOf(AcpResponseOf(a))
         IN [decision |-> d, calls |-> CallsOfDecision(side, inp, d),
             rest |-> IF answers = <<>> THEN answers ELSE Tail(answers)]

\* The "while True" loop of _run_with_confirmation / run_with_confirmation:
\* the engine calls made when the engine's runs end as the script says (an
\* exhausted script is an engine that finishes).
RECURSIVE LoopCalls(_, _, _, _)
LoopCalls(side, inp, script, answers) ==
    IF script = <<>> THEN <<RunCall>>
    ELSE LET r == Head(script) IN
         <<RunCall>> \o
         IF LoopAsksConfirmation(r.status)
         THEN LET h == HandleRequest(side, inp, r.pending, answers) IN
              h.calls \o IF TurnEndsAfter(h.decision) THEN <<>>
                         ELSE LoopCalls(side, inp, Tail(script), h.rest)
         ELSE <<>>

\* _run_with_confirmation / run_with_confirmation from the resume check on.
TurnCalls(side, inp) ==
    IF ResumesFromConfirmation(inp.status)
    THEN LET h == HandleRequest(side, inp, inp.pending, inp.answers) IN
         h.calls \o IF TurnEndsAfter(h.decision) THEN <<>>
                    ELSE LoopCalls(side, inp, inp.script, h.rest)
    ELSE LoopCalls(side, inp, inp.script, inp.answers)

\* What one engine run can end with: a status and its pending actions.
RunResults ==
    {[status |-> st, pending |-> n] :
        st \in RunOutcomes \ {"waiting"}, n \in {0}}
    \cup {[status |-> "waiting", pending |-> n] : n \in 0..MaxActions}

ScriptsUpTo(k) == UNION {[1..len -> RunResults] : len \in 0..k}

LoopInputs ==
    {[status |-> st, pending |-> n, script |-> sc, answers |-> an,
      callback |-> cb, attached |-> at] :
        st \in {"idle", "waiting"}, n \in 0..1, sc \in ScriptsUpTo(MaxScript),
        an \in [1..(MaxScript + 1) -> {"accept", "reject", "always", "fail"}]
               \cup [1..1 -> Answers],
        cb \in BOOLEAN, at \in BOOLEAN}

\* Both turn loops are run on one input.
RunBothLoops ==
    /\ tui_calls = <<>> /\ acp_calls = <<>>
    /\ \E inp \in LoopInputs :
          /\ loop_input' = inp
          /\ tui_calls' = TurnCalls("tui", inp)
          /\ acp_calls' = TurnCalls("acp", inp)
    /\ UNCHANGED <<tuiVars, engineVars, acpVars, marshalVars,
                   elapsed_seconds, condensing>>

SpecLoops == Init /\ [][RunBothLoops]_vars

\* ---------------------------------------------------------------- claims
Active(w) == workers[w].pc \in {"in_run", "in_plain_run"}

Terminal == {"finished", "paused", "other"}

\* C1: for every session id, at most one execution worker is inside the
\* engine's blocking run step at any time, over any interleaving of message
\* submissions for that session.
C1_AtMostOneWorker ==
    \A id \in Ids :
       Cardinality({w \in Msgs : workers[w].sid = id /\ Active(w)}) <= 1

\* C2 as stated: the status a turn loop goes through moves from running only
\* to finished, waiting or paused, and from waiting only to running or
\* paused; no other transition occurs.
C2_ClosedTable ==
    [][\A w \in Msgs :
          workers'[w].pc # "done" =>
             /\ workers[w].seen = "running" /\ workers'[w].seen # "running"
                   => workers'[w].seen \in {"finished", "waiting", "paused"}
             /\ workers[w].seen = "waiting" /\ workers'[w].seen # "waiting"
                   => workers'[w].seen \in {"running", "paused"}]_vars

\* C2 amended: from running the loop may also read an anomalous status (any
\* status other than finished, waiting, paused); from waiting it goes only to
\* running or paused; on finished, paused or an anomalous status the turn
\* ends: the status stays and the engine is not called again.
C2_TableWithAnomaly ==
    [][\A w \in Msgs :
          workers'[w].pc # "done" =>
             /\ workers[w].seen = "running" /\ workers'[w].seen # "running"
                   => workers'[w].seen \in {"finished", "waiting", "paused", "other"}
             /\ workers[w].seen = "waiting" /\ workers'[w].seen # "waiting"
                   => workers'[w].seen \in {"running", "paused"}
             /\ workers[w].seen \in Terminal
                   => /\ workers'[w].seen = workers[w].seen
                      /\ workers'[w].pc = "finally"]_vars

C2_Witness ==
    \E w \in Msgs : workers[w].seen = "other" /\ workers[w].pc = "finally"

\* C6 as stated: after the user rejects the escalated actions the turn ends
\* without any further engine run() call.
C6_RejectEndsTurn ==
    [][\A w \in Msgs :
          workers[w].rejected => workers'[w].pc \notin {"in_run", "in_plain_run"}]_vars

\* C6 amended: when the user rejects, the engine conversation receives a
\* rejection event carrying the reason, the pending actions are cleared, and
\* the loop goes on to the next engine run() call; only Defer ends the turn
\* without a further engine call.
C6_RejectInjectsAndContinues ==
    [][\A w \in Msgs :
          workers[w].pc = "apply" /\ workers'[w].pc # "apply" =>
             IF workers[w].decision = "DEFER"
             THEN workers'[w].pc = "finally"
             ELSE /\ workers'[w].pc = "loop_run"
                  /\ workers[w].decision = "REJECT"
                        => /\ RejectReason \in reject_events'[workers[w].sid]
                           /\ unmatched'[workers[w].sid] = 0
                           /\ workers'[w].rejected]_vars

C6_Witness ==
    \E w \in Msgs :
       /\ workers[w].rejected
       /\ workers[w].pc = "loop_run"
       /\ RejectReason \in reject_events[workers[w].sid]

\* C7: when the escalation fails, times out or has no decision callback, the
\* decision is Defer: a decision of Accept on pending actions is always the
\* user's answer to an escalation.
C7_NoAutoApproveOnError ==
    \A w \in Msgs :
       workers[w].pc = "apply" /\ workers[w].decision = "ACCEPT" =>
          workers[w].pending = 0 \/ workers[w].escalated

\* C8: a policy change made during a turn takes effect at the next
\* confirmation check of that turn, also when the turn started under
\* NeverConfirm: no turn ends leaving the engine waiting for the confirmation
\* of pending actions that were never escalated.
C8_PolicyChangeReachesTurn ==
    \A w \in Msgs :
       /\ workers[w].pc = "finally"
       /\ exec_status[workers[w].sid] = "waiting"
       /\ unmatched[workers[w].sid] > 0
       => workers[w].escalated

\* C10: in every reachable state, a conversation whose status is
\* waiting for confirmation has a pending action count above zero.
C10_WaitingImpliesPending ==
    conversation_id # None /\ exec_status[conversation_id] = "waiting"
       => pending_action_count > 0

\* C3: every message passed to handle_user_message, whether the conversation
\* is idle, running or being switched, reaches the engine's send_message or
\* produces an explicit error: none is dropped silently.
C3_NoSilentDrop ==
    \A m \in Msgs : fate[m] # "dropped"

\* C9: after any sequence of set-policy, switch, create and get-or-create
\* operations, the policy held by the active conversation's engine
\* conversation equals the policy stored in the state.
C9_PolicyRoundTrip ==
    /\ conversation_id # None
    /\ conversation_id \in runners
    /\ current_runner = conversation_id
    => conv_policy[conversation_id] = confirmation_policy

\* C4: when cancel returns, the session is in a non-running status, also
\* when the engine's run step never returns on its own, on the cooperative
\* path as on the forced one.
C4_CancelLeavesNonRunning ==
    [][cancel_call.pc # "returned" /\ cancel_call'.pc = "returned"
          => exec_status'[cancel_call'.sid] # "running"]_vars

CancelTraces ==
    {<<"pause", "return">>,
     <<"pause", "wait", "return">>,
     <<"pause", "wait", "timeout", "force_cancel", "await", "absorb", "return">>}

\* C5: cancel first signals the engine to pause, then waits for the running
\* task; only if the task is still unsettled at the timeout does it cancel the
\* task, await it and absorb the cancellation; with no running task, or one
\* that is done, it returns right after the pause signal without waiting.
C5_CancelOrder ==
    /\ [](/\ cancel_call.pc = "waiting" => cancel_call.trace = <<"pause", "wait">>
          /\ cancel_call.pc = "forced"
                => /\ cancel_call.trace = <<"pause", "wait", "timeout", "force_cancel">>
                   /\ tasks[cancel_call.task].pc = "cancelled"
          /\ cancel_call.pc = "returned" => cancel_call.trace \in CancelTraces)
    /\ [][/\ cancel_call.pc = "idle" /\ cancel_call'.pc # "idle"
             => /\ pause_requested'[cancel_call'.sid]
                /\ cancel_call'.pc = "waiting"
                      <=> /\ running_tasks[cancel_call'.sid] # None
                          /\ tasks[running_tasks[cancel_call'.sid]].pc
                                \notin {"done", "cancelled"}
          /\ cancel_call.pc = "waiting" /\ cancel_call'.pc = "forced"
             => tasks[cancel_call.task].pc \notin {"done", "cancelled"}
          /\ cancel_call.pc = "waiting" /\ cancel_call'.pc = "returned"
             => tasks[cancel_call.task].pc \in {"done", "cancelled"}]_vars

C5_Witness ==
    /\ cancel_call.pc = "returned"
    /\ Len(cancel_call.trace) = 7
    /\ tasks[cancel_call.task].pc = "cancelled"

\* C11: get-or-create is idempotent: for every conversation id the engine
\* conversation is constructed at most once, also across switches away from
\* and back to that id.
C11_ConstructedAtMostOnce ==
    \A id \in Ids : created[id] <= 1

\* C12: when a failure while the target is prepared has been handled, the
\* active conversation id is the previous one again, an error notification is
\* shown, and the switching flag and the input field are as before the
\* switch (not switching, input enabled).
C12_FailureRollsBack ==
    [][\A k \in SwitchSlots :
          switch_workers[k].pc = "error" /\ switch_workers'[k].pc = "done" =>
             /\ conversation_id' = switch_workers[k].prev
             /\ notification' = "Switch Error"
             /\ ~is_switching'
             /\ ~input_disabled']_vars

\* C13: when the pause of the current worker raises during a confirmed
\* switch, the error is reported and the switch still proceeds to the
\* preparation of the target.
C13_PauseFailureReportedNotBlocking ==
    [][\A k \in SwitchSlots :
          ~switch_workers[k].pause_error /\ switch_workers'[k].pause_error =>
             /\ notification' # "none"
             /\ switch_workers'[k].pc \in {"prepare", "prepare_ui"}]_vars

\* C14: a switch request for the conversation that is already active changes
\* nothing, also while that conversation is running: the id, the runner, the
\* running status and the switching flag stay, no confirmation is asked, and
\* the one notification "Already Active" is shown.
C14_SwitchToCurrentIsNoOp ==
    [][SwitchTo(conversation_id, TRUE) =>
          /\ notification' = "Already Active"
          /\ modal_target' = None
          /\ UNCHANGED <<conversation_id, conversation_runner, running,
                         view_running, is_switching, switch_workers>>]_vars

\* C16: a switch to another conversation asks for confirmation exactly when
\* the current conversation is running at request time: then the target is
\* held for confirmation and no switch step is taken; otherwise the switch
\* starts at once, without confirmation and without pausing.
C16_ConfirmIffRunning ==
    [][\A t \in Ids :
          RequestSwitch(t) /\ conversation_id \notin {None, t} =>
             IF runner_running[conversation_id]
             THEN /\ switch_confirmation_target' = t
                  /\ UNCHANGED <<conversation_id, switch_workers>>
             ELSE /\ conversation_id' = IdWhileSwitching
                  /\ \E k \in SwitchSlots :
                        /\ switch_workers'[k].pc = "start"
                        /\ switch_workers'[k].target = t
                        /\ ~switch_workers'[k].pause]_vars

\* C15: when the user declines the confirmation of a switch that was
\* requested while the conversation was running, the active conversation
\* stays, its worker and the engine are left untouched (no pause is sent),
\* the pending switch target is cleared and no switch is started.
C15_DeclineKeepsSession ==
    [][HandleSwitchConfirmed(FALSE) =>
          /\ switch_confirmation_target' = None
          /\ UNCHANGED <<conversation_id, current_runner, runners, running,
                         runner_running, workers, switch_workers,
                         confirmation_policy>>
          /\ UNCHANGED engineVars]_vars

C15_Witness ==
    /\ switch_confirmed = "declined"
    /\ switch_confirmation_target = None
    /\ conversation_id # None
    /\ running
    /\ \E w \in Msgs : workers[w].sid = conversation_id /\ Active(w)
    /\ \A k \in SwitchSlots : switch_workers[k].pc = "none"

\* C17: a switch to a conversation and the start of a new conversation reset
\* the transient fields (running status, run-start time) and leave the
\* confirmation policy as it was.
C17_PolicySticky ==
    [][(CreateConversation \/ \E k \in SwitchSlots : SwitchPrepare(k)) =>
          /\ confirmation_policy' = confirmation_policy
          /\ notification' \in {"Switched", "New Conversation"}
                => ~running' /\ ~conversation_start_time']_vars

C17_Witness ==
    /\ notification = "Switched"
    /\ confirmation_policy = "ConfirmRisky"
    /\ ~running

C19_DecisionSetsPolicy ==
    [][\A w \in Msgs :
          workers[w].pc = "apply" /\ workers'[w].pc # "apply" =>
             LET d == workers[w].decision
                 id == workers[w].sid IN
             /\ d \in {"ALWAYS_PROCEED", "CONFIRM_RISKY", "ACCEPT"}
                   => /\ workers'[w].pc = "loop_run"
                      /\ unmatched'[id] = unmatched[id]
                      /\ reject_events' = reject_events
             /\ d = "ALWAYS_PROCEED"
                   => confirmation_policy' = "NeverConfirm"
                      /\ conv_policy'[id] = "NeverConfirm"
             /\ d = "CONFIRM_RISKY"
                   => confirmation_policy' = "ConfirmRisky"
                      /\ conv_policy'[id] = "ConfirmRisky"
             /\ d = "ACCEPT"
                   => confirmation_policy' = confirmation_policy
                      /\ conv_policy' = conv_policy]_vars

\* C22 as stated: a turn that starts while the engine conversation is waiting
\* for confirmation handles the confirmation request before any engine run()
\* call, whatever the policy, and makes no run() call at all if the decision
\* is Defer.
C22_ResumeResolvesFirst ==
    [][\A w \in Msgs :
          /\ /\ workers[w].pc = "spawned"
              /\ workers'[w].pc \notin {"spawned", "finally"}
              /\ exec_status[workers[w].sid] = "waiting"
              => workers'[w].pc \in {"await_panel", "apply"}
          /\ ~workers[w].ran /\ workers'[w].ran /\ workers[w].seen = "waiting"
              => workers[w].decision \in Decisions \ {"DEFER"}]_vars

\* C22: in confirmation mode (a policy other than NeverConfirm), a turn that
\* starts while the engine conversation is waiting for confirmation handles
\* the confirmation request before any engine run() call, and a turn whose
\* first run() call follows such a request makes it only after a decision
\* other than Defer; under NeverConfirm the turn calls run() at once.
C22_ResumeResolvesFirstInConfirmationMode ==
    [][\A w \in Msgs :
          /\ /\ workers[w].pc = "spawned"
              /\ workers'[w].pc \notin {"spawned", "finally"}
              /\ exec_status[workers[w].sid] = "waiting"
              => IF is_confirmation_active
                 THEN workers'[w].pc \in {"await_panel", "apply"}
                 ELSE workers'[w].pc = "plain_run"
          /\ ~workers[w].ran /\ workers'[w].ran /\ workers[w].seen = "waiting"
              => workers[w].decision \in Decisions \ {"DEFER"}
          /\ workers[w].pc = "apply" /\ workers[w].decision = "DEFER"
              => workers'[w].pc \in {"apply", "finally"}]_vars

C22_Witness ==
    \E w \in Msgs :
       /\ workers[w].pc = "finally"
       /\ workers[w].decision = "DEFER"
       /\ workers[w].seen = "paused"
       /\ ~workers[w].ran
       /\ fate[w] = "sent"

\* C23: an exception raised by send_message or run() during a turn is caught:
\* it produces an error notification and the turn goes to its finally block;
\* when the turn ends, normally or by exception, the runner's running flag
\* and the state's running status are both false.
C23_ErrorReportedAndSettled ==
    [][\A w \in Msgs :
          /\ EngineRaise(w) \/ (WorkerStart(w) /\ fate'[w] = "error")
                => /\ notification' \in {"Conversation Error", "Unexpected Error"}
                   /\ workers'[w].pc = "finally"
          /\ workers[w].pc = "finally" /\ workers'[w].pc # "finally"
                => /\ workers'[w].pc = "done"
                   /\ ~runner_running'[workers[w].sid]
                   /\ ~running'
                   /\ ~conversation_start_time']_vars

C23_Witness ==
    \E w \in Msgs :
       /\ workers[w].pc = "done"
       /\ fate[w] = "error"
       /\ ~runner_running[workers[w].sid]
       /\ ~running

\* C24: a pause request while no worker is running, whether there is no
\* runner or the runner is idle, sends no pause signal to the engine, leaves
\* the session state as it is and reports that there is nothing to pause.
C24_PauseWhenIdleReports ==
    [][/\ ActionPauseConversation
       /\ conversation_runner = NoRunner \/ conversation_runner \notin view_running
       => /\ notification' = "No running conversation to pause"
          /\ UNCHANGED engineVars
          /\ UNCHANGED <<conversation_id, running, confirmation_policy,
                         conversation_runner, view_running>>]_vars

\* C25: the turn loop never runs on the control thread, and every update of
\* the session state is executed by the control thread: no attribute of the
\* state is set by a worker thread.
C25_StateWrittenOnControlThread ==
    /\ \A p \in 1..MaxProducers :
          producers[p].kind # "none" => producers[p].thread # MainThread
    /\ \A i \in 1..Len(applied) : applied[i].thread = MainThread

C25_Witness ==
    \E i \in 1..Len(applied) :
       /\ applied[i].p # None
       /\ producers[applied[i].p].kind = "tui"
       /\ producers[applied[i].p].thread = "worker"
       /\ applied[i].attr = "running"
       /\ applied[i].thread = MainThread

C27_BatchAcceptedOnce ==
    \A w \in Msgs :
       /\ workers[w].pc = "finally"
       /\ workers[w].trace # <<>> /\ workers[w].trace[1] = "running"
       /\ workers[w].batches = <<2>>
       /\ workers[w].asked # <<>>
       /\ workers[w].decisions = <<"ACCEPT">>
       /\ workers[w].trace[Len(workers[w].trace)] = "finished"
       => /\ workers[w].trace = <<"running", "waiting", "running", "finished">>
          /\ workers[w].asked = <<2>>

C27_Witness ==
    \E w \in Msgs :
       /\ workers[w].pc = "finally"
       /\ confirmation_policy = "AlwaysConfirm"
       /\ workers[w].batches = <<2>>
       /\ workers[w].decisions = <<"ACCEPT">>
       /\ workers[w].trace = <<"running", "waiting", "running", "finished">>
       /\ workers[w].asked = <<2>>

\* C28: a turn started under the NeverConfirm policy, the policy being left
\* as it is, never invokes the confirmation callback, and its one engine
\* run() call does not stop for confirmation: the statuses of the turn are
\* running and then what the engine ends with, never waiting.
C28_AutoApproveNeverWaits ==
    [][\A w \in Msgs :
          /\ workers[w].pc \in {"plain_run", "in_plain_run"}
                => workers'[w].pc \in {"plain_run", "in_plain_run", "finally"}
          /\ /\ workers[w].pc = "in_plain_run" /\ workers'[w].pc = "finally"
              /\ confirmation_policy = "NeverConfirm"
              => exec_status'[workers[w].sid] # "waiting"]_vars


\* Conversation creation interleaved with message submissions and turns.
InitCreate == Init /\ confirmation_policy = "NeverConfirm" /\ confirmation_callback

NextCreate ==
    \/ \E m \in Msgs : HandleUserMessage(m)
    \/ \E w \in Msgs : WorkerStart(w)
    \/ \E w \in Msgs : WorkerRun(w)
    \/ \E w \in Msgs : EngineReturn(w)
    \/ \E w \in Msgs : WorkerFinally(w)
    \/ CreateConversation

SpecCreate == InitCreate /\ [][NextCreate]_vars

\* C29: a request to create a conversation while the current conversation
\* is running is rejected with an error notification and changes nothing
\* (store, session id, current runner, running status); when nothing is
\* running a new id is created and installed and the registry keeps the
\* handles of the earlier sessions.
C29_CreateRejectedWhileRunning ==
    [][CreateConversation =>
          /\ (conversation_id # None /\ exec_status[conversation_id] = "running")
                => /\ notification' = "New Conversation Error"
                   /\ UNCHANGED <<store, conversation_id, current_runner,
                                  running>>
          /\ (\A i \in Ids : ~runner_running[i] /\ exec_status[i] # "running")
                => /\ \E new_id \in Ids \ store :
                         /\ store' = store \cup {new_id}
                         /\ conversation_id' = new_id
                   /\ runners' = runners]_vars

\* C30: clear_current detaches the current pointer without destroying a
\* handle: no step removes an id from the registry's map, creating a
\* conversation leaves the map as it was with no current runner, and a later
\* get_or_create for an id that already has a handle adds nothing to the
\* map, leaves that runner and its conversation as they were, and makes it
\* the current runner again.
C30_ClearCurrentKeepsHandles ==
    [][/\ runners \subseteq runners'
       /\ (CreateConversation /\ ~running)
             => runners' = runners /\ current_runner' = None
       /\ \A id \in runners :
             (current_runner # id /\ current_runner' = id)
                => /\ runners' = runners
                   /\ conv_policy'[id] = conv_policy[id]
                   /\ runner_running'[id] = runner_running[id]]_vars

\* A switch back to conversation 1 has just returned its cached runner.
C30_Witness ==
    /\ notification = "Switched"
    /\ conversation_id = 1
    /\ current_runner = 1
    /\ attached_conversation = None
    /\ runners = {1}
    /\ 2 \in store

\* C31: a decision is consumed once: a selection that arrives when the
\* escalation of the panel's turn is already resolved (the wait timed out and
\* defaulted to DEFER) changes neither the turn nor the policy.
C31_LateDecisionHasNoEffect ==
    [][\A d \in Decisions :
          (PanelDecision(d) /\ workers[panel.worker].pc # "await_decision")
             => UNCHANGED <<workers, confirmation_policy, conv_policy,
                            exec_status, unmatched>>]_vars

\* The turn of message w makes a step: one step of its worker thread, the
\* mounting of its panel, or the answer to its confirmation request.
TurnStep(w) ==
    \/ WorkerStart(w)
    \/ WorkerRun(w)
    \/ EngineReturn(w)
    \/ EngineRaise(w)
    \/ ShowConfirmationPanel(w)
    \/ DecisionTimeout(w)
    \/ \E d \in Decisions : panel.worker = w /\ PanelDecision(d)
    \/ WorkerApply(w)
    \/ WorkerFinally(w)

\* One conversation's turns where every engine step returns or raises, the
\* worker thread keeps being scheduled, and every confirmation request is
\* answered or times out.
SpecFair == Init /\ [][Next]_vars /\ \A w \in Msgs : WF_vars(TurnStep(w))

\* The engine step of turn w stops for confirmation.
EngineAsks(w) ==
    EngineReturn(w) /\ exec_status'[workers[w].sid] = "waiting"

\* The turn loop of w returns in this step (it is not left by an exception).
LoopReturns(w) ==
    /\ workers[w].pc \in {"in_run", "apply"}
    /\ EngineReturn(w) \/ WorkerApply(w)
    /\ workers'[w].pc = "finally"

\* C32 as stated: the turn loop eventually returns, the engine status at the
\* return is finished, waiting or paused, and the loop goes to another engine
\* step only from a confirmation request resolved by a decision other than
\* DEFER.
C32_TurnTerminatesSettled ==
    /\ \A w \in Msgs : workers[w].pc = "spawned" ~> workers[w].pc = "done"
    /\ [][\A w \in Msgs :
             /\ LoopReturns(w)
                   => exec_status'[workers[w].sid]
                         \in {"finished", "waiting", "paused"}
             /\ workers[w].pc # "loop_run" /\ workers'[w].pc = "loop_run"
                   => \/ workers[w].pc = "spawned"
                      \/ workers[w].pc = "apply" /\ workers[w].decision # "DEFER"]_vars

\* C32 amended: if the engine stops for confirmation only finitely often,
\* the turn eventually returns; at the return of the loop the status the loop
\* read last is finished, paused or an anomalous status, or the decision was
\* DEFER and the engine was told to pause; and the loop goes to another
\* engine step only from a confirmation request resolved by a decision other
\* than DEFER.
C32_TurnReturnsUnlessAskedForever ==
    /\ \A w \in Msgs :
          (<>[][~EngineAsks(w)]_vars)
             => (workers[w].pc = "spawned" ~> workers[w].pc = "done")
    /\ [][\A w \in Msgs :
             /\ LoopReturns(w)
                   => workers'[w].seen \in {"finished", "paused", "other"}
             /\ workers[w].pc # "loop_run" /\ workers'[w].pc = "loop_run"
                   => \/ workers[w].pc = "spawned"
                      \/ /\ workers[w].pc = "apply"
                         /\ workers[w].decision # "DEFER"]_vars

\* A turn that ran the engine, was asked, got DEFER and has left the loop
\* with the engine paused.
C32_Witness ==
    \E w \in Msgs :
       /\ workers[w].pc = "finally"
       /\ workers[w].ran
       /\ workers[w].decision = "DEFER"
       /\ exec_status[workers[w].sid] = "paused"

\* C33: the ACP turn loop and the TUI turn loop issue the same sequence of
\* engine calls (run, reject_pending_actions, pause, set_confirmation_policy
\* and the policy set) and stop at the same point, for the same engine
\* statuses and the same answers of the user.
C33_LoopsIssueSameCalls ==
    tui_calls = acp_calls

AllowOptions == {"accept", "always_proceed", "risk_based"}

\* C34: ask_user_confirmation_acp approves only on an allow option (accept,
\* always_proceed, risk_based) or when nothing is pending; reject, an unknown
\* option and a denied outcome give REJECT; a failed request gives DEFER; a
\* policy change comes only with always_proceed (NeverConfirm) and risk_based
\* (ConfirmRisky, threshold HIGH); and the runner applies exactly that.
C34_AcpDecisionTable ==
    /\ \A n \in 0..MaxActions, resp \in AcpResponses :
          LET r == AskUserConfirmationAcp(n, resp) IN
          /\ r.decision = "ACCEPT" <=> (n = 0 \/ resp \in AllowOptions)
          /\ n > 0 /\ resp \in {"reject", "unknown", "denied"}
                => r.decision = "REJECT"
          /\ n > 0 /\ resp = "exception" => r.decision = "DEFER"
          /\ r.policy_change =
                IF n > 0 /\ resp = "always_proceed" THEN "NeverConfirm"
                ELSE IF n > 0 /\ resp = "risk_based" THEN "ConfirmRisky"
                ELSE "none"
          /\ r.threshold = IF r.policy_change = "ConfirmRisky" THEN "HIGH"
                           ELSE "none"
    /\ [][\A m \in Msgs, resp \in AcpResponses :
             AcpPermissionOutcome(m, resp) =>
                LET id == tasks[m].sid
                    d == tasks'[m].decision
                IN
                /\ d \in {"ACCEPT", "ALWAYS_PROCEED", "CONFIRM_RISKY"}
                      => resp \in AllowOptions
                /\ resp \in {"reject", "unknown", "denied"} => d = "REJECT"
                /\ resp = "exception" => d = "DEFER"
                /\ conv_policy'[id] =
                      IF resp = "always_proceed" THEN "NeverConfirm"
                      ELSE IF resp = "risk_based" THEN "ConfirmRisky"
                      ELSE conv_policy[id]]_vars

\* The client chose risk_based for pending actions: the task goes on with
\* the conversation under ConfirmRisky.
C34_Witness ==
    \E m \in Msgs :
       /\ tasks[m].pc = "loop"
       /\ tasks[m].decision = "CONFIRM_RISKY"
       /\ tasks[m].escalated
       /\ conv_policy[tasks[m].sid] = "ConfirmRisky"

\* C35: condensation and turn execution exclude each other on a session:
\* the engine's condense() is never executing while a worker of that session
\* is inside the engine's run(), and a condense request made while the
\* runner is running is refused with a warning and starts no condense().
C35_CondenseExcludesTurn ==
    /\ [](\A id \in condensing :
            \A w \in Msgs : ~(workers[w].sid = id /\ Active(w)))
    /\ [][(CondenseConversation /\ current_runner # None
              /\ runner_running[current_runner])
             => /\ condensing' = condensing
                /\ notification' = "Cannot condense while conversation is running."]_vars

\* C36: the shared running status reflects the active conversation's worker:
\* whenever no switch is in progress, state.running is true exactly when the
\* runner of the active conversation is running; a worker of a conversation
\* that was left neither leaves the status stale nor overwrites it.
C36_RunningReflectsCurrent ==
    conversation_id # None =>
       (running <=> (conversation_id \in runners
                        /\ runner_running[conversation_id]))

SwitcherStep(k) ==
    \/ SwitcherWorker(k)
    \/ PrepareUi(k)
    \/ CreateRunnerForConversation(k)
    \/ ShowError(k)

\* The application's switcher where the switch worker thread and the UI
\* thread keep being scheduled.
SpecSwitcherFair ==
    InitSwitcher /\ [][NextSwitcher]_vars
       /\ \A k \in SwitchSlots : WF_vars(SwitcherStep(k))

\* C38: every started switch eventually completes: after start_switching,
\* whether the switch succeeds or fails, a state is reached where no switch
\* is in progress, the conversation id is set and the input is enabled.
C38_SwitchCompletes ==
    is_switching ~> (~is_switching /\ conversation_id # None /\ ~input_disabled)

\* The ACP agent where the client may send a further prompt for the session
\* while an earlier one is still being served: every prompt is a coroutine
\* of its own on the agent's event loop.
NextAcpOverlap ==
    \/ \E e \in BOOLEAN : AcpSetConfirmationMode(AcpSession, e)
    \/ \E m \in Msgs : AcpPrompt(m, AcpSession)
    \/ \E m \in Msgs : AcpThreadReturn(m)
    \/ \E m \in Msgs, r \in AcpResponses : AcpPermissionOutcome(m, r)
    \/ \E m \in Msgs : AcpLoopRun(m)
    \/ \E m \in Msgs : AcpPromptReturn(m)
    \/ AcpCancel(AcpSession)
    \/ AcpCancelSettled
    \/ AcpCancelTimeout
    \/ AcpCancelAbsorb
    \/ AcpCancelDone

SpecAcpOverlap == InitAcpAgent /\ [][NextAcpOverlap]_vars

\* C39: the ACP running-task table is consistent with execution: a session
\* has an entry in _running_tasks whenever a run task of that session is
\* in progress, and an entry is the task of a prompt that has not yet
\* returned, also when prompts of one session overlap.
C39_RunningTaskTableConsistent ==
    \A sid \in Ids :
        /\ (\E m \in Msgs : /\ tasks[m].sid = sid
                            /\ tasks[m].pc # "none"
                            /\ ~TaskDone(m))
              => running_tasks[sid] # None
        /\ running_tasks[sid] # None
              => /\ tasks[running_tasks[sid]].sid = sid
                 /\ tasks[running_tasks[sid]].prompt = "awaiting"

\* ------------------------------------------------------ elapsed time
\* ConversationView._update_elapsed: nothing unless running with a run-start
\* time; else the whole seconds since the start, one more at each tick of
\* the one-second timer.
ElapsedAfterTickAlways(e) == e + 1

ElapsedAfterTick(e) ==
    IF ~running \/ ~conversation_start_time THEN e ELSE e + 1

\* The timer started in on_mount fires.
UpdateElapsed ==
    /\ elapsed_seconds < MaxElapsed
    /\ elapsed_seconds' = ElapsedAfterTick(elapsed_seconds)
    /\ UNCHANGED <<tuiVars, engineVars, acpVars, marshalVars, condensing,
                   loopVars>>

\* Turns, new conversations and switches of the controller generation, with
\* the elapsed-time timer running.
NextElapsed ==
    \/ \E m \in Msgs : HandleUserMessage(m)
    \/ \E w \in Msgs : WorkerStart(w)
    \/ \E w \in Msgs : WorkerRun(w)
    \/ \E w \in Msgs : EngineReturn(w)
    \/ \E w \in Msgs : WorkerFinally(w)
    \/ CreateConversation
    \/ \E t \in Ids : RequestSwitch(t)
    \/ \E c \in BOOLEAN : HandleSwitchConfirmed(c)
    \/ \E k \in SwitchSlots : SwitchWorkerPause(k)
    \/ \E k \in SwitchSlots : SwitchPrepare(k)
    \/ \E k \in SwitchSlots : HandleSwitchError(k)
    \/ UpdateElapsed

SpecElapsed == InitCreate /\ [][NextElapsed]_vars

\* C40: the run-start time is set exactly while the session is running;
\* the elapsed seconds are reset to 0 at each start of running, and they
\* never advance while the session is not running.
C40_StartTimeIffRunning ==
    /\ [](conversation_start_time <=> running)
    /\ [][/\ (running' /\ ~running) => elapsed_seconds' = 0
          /\ (running' # running)
                => (conversation_start_time' <=> running')
          /\ elapsed_seconds' > elapsed_seconds
                => running /\ conversation_start_time]_vars

C40_Witness ==
    /\ running
    /\ conversation_start_time
    /\ elapsed_seconds = 0
    /\ workers[1].pc = "done"
    /\ workers[2].pc \in {"loop_run", "in_plain_run"}
    /\ store = {1, 2}
====
